---- MODULE Spec2Model ----
(***************************************************************************)
(* A model of the FAT12/FAT16 image tools del (msdosdel.c) and undel       *)
(* (msdosundel.c).  The image is a sparse byte map: a byte that the map    *)
(* does not hold reads as 0.  Memory that the C code reads before writing  *)
(* it (malloc'd and never set) is a nondeterministic value.                *)
(***************************************************************************)
EXTENDS Integers, Sequences, FiniteSets, TLC

VARIABLES
    tool,       \* "del" or "undel": which main() runs
    image0,     \* the image file as it was when the session opened it
    image,      \* the image file now
    fatInfo,    \* the global FATInfo record filled by readBootStrapSector
    dirList,    \* the entries after dirListHead, in list order
    pc,         \* the position of the session in main / deleteFile / undeleteFile
    n,          \* the last number read by scanf("%d", &n)
    answer,     \* the character the user typed at the [y/n] prompt
    c,          \* the variable c of deleteFile / undeleteFile
    cand,       \* index in dirList of the entry dirListTail points at after selection
    check,      \* what checkValid computed: its lists and its verdict
    writes,     \* every fwrite to the image so far, as <<position, byte>>
    fnArg,      \* the arguments of a function that is applied on its own
    fnRes       \* the result of that function

vars == <<tool, image0, image, fatInfo, dirList, pc, n, answer, c, cand, check, writes, fnArg, fnRes>>

----------------------------------------------------------------------------
(* Bounds of the model *)

\* at most this many slots are used in the root directory of an image
MaxRoot == 2
\* the selection prompt is answered with a number in -1..MaxN
MaxN == 4
\* loop iterations plus nested calls a directory scan may use before the
\* model gives up on it (the C program would not return)
MaxFuel == 6

----------------------------------------------------------------------------
(* Program constants *)

NOT_USED == 0
DELETED == 229
ACTUAL_E5 == 5
DIRECTORY == 46
ATTR_HIDDEN == 2
ATTR_SYSTEM_FILE == 4
ATTR_VOLUME_LABEL == 8
ATTR_SUB_DIR == 16
RESERVED_12 == 1
RESERVED_16 == 1
BAD_CLUSTER_12 == 4087
BAD_CLUSTER_16 == 65527
END_MARKER_12 == 4088
END_MARKER_16 == 65528
FIRST_ROOT_CLUSTER == 2
\* sizeof(DirectoryEntry)
SizeofDirEntry == 32
SPACE == 32
DOT == 46

----------------------------------------------------------------------------
(* C arithmetic *)

\* A 32-bit unsigned value is kept as its two 16-bit halves.
\* the unsigned int that the int x converts to
U32(x) == [hi |-> (x \div 65536) % 65536, lo |-> x % 65536]

\* a - b in unsigned 32-bit arithmetic
U32Sub(a, b) ==
    LET d == a.lo - b.lo
        borrow == IF d < 0 THEN 1 ELSE 0
    IN  [hi |-> (a.hi - b.hi - borrow) % 65536, lo |-> d % 65536]

\* a / k in unsigned 32-bit arithmetic, for 0 < k < 65536
U32Div(a, k) ==
    [hi |-> a.hi \div k, lo |-> ((a.hi % k) * 65536 + a.lo) \div k]

\* the int that the unsigned value a converts to (two's complement)
U32ToInt(a) == (IF a.hi >= 32768 THEN a.hi - 65536 ELSE a.hi) * 65536 + a.lo

\* x & bit # 0, for a single-bit mask and x >= 0
HasBit(x, bit) == (x \div bit) % 2 = 1

\* C division truncates towards zero
CDiv(a, b) ==
    IF (a >= 0) = (b > 0) THEN (IF a >= 0 THEN a \div b ELSE (-a) \div (-b))
    ELSE -((IF a >= 0 THEN a ELSE -a) \div (IF b >= 0 THEN b ELSE -b))

\* the byte of the image file at position p (0 where the map holds nothing)
ByteAt(img, p) == IF p \in DOMAIN img THEN img[p] ELSE 0

----------------------------------------------------------------------------
(* Little-endian decoding *)

le2be2(b0, b1) == b0 + b1 * 256

\* le2be3 taking the whole second byte into the first entry
le2be3_WholeSecondByte(b0, b1, b2, which) ==
    LET w == IF which # 1 /\ which # 2 THEN 1 ELSE which
    IN  IF w = 1 THEN b0 + b1 * 256
        ELSE b2 * 16 + (b1 \div 16)

le2be3(b0, b1, b2, which) ==
    LET w == IF which # 1 /\ which # 2 THEN 1 ELSE which
    IN  IF w = 1 THEN b0 + (b1 % 16) * 256
        ELSE b2 * 16 + (b1 \div 16)

\* bytes[3] << 24 reaches the sign bit of the int when bytes[3] >= 0x80
le2be4(b0, b1, b2, b3) ==
    b0 + b1 * 256 + b2 * 65536 + (IF b3 >= 128 THEN b3 - 256 ELSE b3) * 16777216

----------------------------------------------------------------------------
(* Boot sector *)

\* the fields of the BootSector struct that the tools decode
BootField2(img, off) == le2be2(ByteAt(img, off), ByteAt(img, off + 1))

getNumberClusters(img) ==
    LET bps  == BootField2(img, 11)
        spc  == ByteAt(img, 13)
        res  == BootField2(img, 14)
        cop  == ByteAt(img, 16)
        ents == BootField2(img, 17)
        tot  == BootField2(img, 19)
        spf  == BootField2(img, 22)
        large == le2be4(ByteAt(img, 32), ByteAt(img, 33), ByteAt(img, 34), ByteAt(img, 35))
        root_dir_sectors == (ents * 32 + (bps - 1)) \div bps
        overhead == res + cop * spf + root_dir_sectors
        data_sectors == IF tot # 0 THEN U32Sub(U32(tot), U32(overhead))
                        ELSE U32Sub(U32(large), U32(overhead))
    IN  U32ToInt(U32Div(data_sectors, spc))

\* the divisions of getNumberClusters trap when the sector size or the
\* sectors per cluster field is 0
DividesByZero(img) == BootField2(img, 11) = 0 \/ ByteAt(img, 13) = 0

getFATType(img) ==
    LET total_clusters == getNumberClusters(img)
    IN  IF total_clusters < 4085 THEN 12
        ELSE IF total_clusters < 65525 THEN 16 ELSE 32

\* readBootStrapSector without the boot sector counted before the FATs
readBootStrapSector_NoBootSector(img) ==
    [ fatType         |-> getFATType(img),
      numFATSectors   |-> BootField2(img, 22),
      numCopiesFAT    |-> ByteAt(img, 16),
      sizeofSector    |-> BootField2(img, 11),
      firstDataSector |-> ByteAt(img, 16) * BootField2(img, 22),
      numRootEntries  |-> BootField2(img, 17),
      numRootClusters |-> (BootField2(img, 17) * SizeofDirEntry) \div BootField2(img, 11),
      reservedSectors |-> BootField2(img, 14) ]

readBootStrapSector(img) ==
    [ fatType         |-> getFATType(img),
      numFATSectors   |-> BootField2(img, 22),
      numCopiesFAT    |-> ByteAt(img, 16),
      sizeofSector    |-> BootField2(img, 11),
      firstDataSector |-> ByteAt(img, 16) * BootField2(img, 22) + 1,
      numRootEntries  |-> BootField2(img, 17),
      numRootClusters |-> (BootField2(img, 17) * SizeofDirEntry) \div BootField2(img, 11),
      reservedSectors |-> BootField2(img, 14) ]

\* getAbsoluteCluster without the two cluster numbers that name no cluster
getAbsoluteCluster_FromZero(fi, relativeCluster) == relativeCluster + fi.firstDataSector

getAbsoluteCluster(fi, relativeCluster) == relativeCluster - 2 + fi.firstDataSector

----------------------------------------------------------------------------
(* Memory the code reads without having written it *)

\* values an attribute byte of a malloc'd, never assigned DirectoryEntry can hold
GarbageAttr == {0, ATTR_HIDDEN, ATTR_SUB_DIR}
\* values the cluster field of a malloc'd, never assigned ClusterList node can hold
GarbageInt == {0, 1, 3}
\* values a byte of a sector buffer holds where no fread filled it
GarbageByte == {0, 255}

\* the slots of the image that hold something, from the first data sector on
UsedSlots(img) ==
    { p \in DOMAIN img : /\ p % SizeofDirEntry = 0
                         /\ img[p] # 0
                         /\ p >= BootField2(img, 11) * (ByteAt(img, 16) * BootField2(img, 22) + 1) }

\* the length of the image file: the images of this model are as long as
\* their boot sector says
ImageLength(img) == BootField2(img, 19) * BootField2(img, 11)

\* a sector buffer: base is the file position fread filled it from, or -1
\* when the buffer is as malloc returned it
UninitSector == [base |-> -1]

\* fseek(fs, pos, SEEK_SET); fread(buffer, sizeofSector, 1, fs): a read that
\* does not get a whole sector leaves the buffer as it was malloc'd
ReadSector(img, fi, pos) ==
    IF pos + fi.sizeofSector <= ImageLength(img) THEN [base |-> pos] ELSE UninitSector

\* byte off of a sector buffer; heap.fill stands for every byte that no
\* fread wrote (buffer never filled, read past the end of the file, or an
\* index outside the buffer)
SectorByte(img, fi, heap, buf, off) ==
    IF \/ buf.base < 0
       \/ off < 0
       \/ off >= fi.sizeofSector
    THEN heap.fill
    ELSE ByteAt(img, buf.base + off)

----------------------------------------------------------------------------
(* FAT walker (the code is the same in msdosdel.c and msdosundel.c) *)

\* the entries getCorrectFATSector takes one FAT sector to hold
EntriesPerFATSector(fi) ==
    IF fi.fatType = 12 THEN (fi.sizeofSector * 2) \div 3 ELSE fi.sizeofSector \div 2

\* the test of getCorrectFATSector that makes it read a FAT sector
OutsideLoadedSector(fi, curFATSector, nextCluster) ==
    LET fatSectorMin == curFATSector * EntriesPerFATSector(fi)
    IN  /\ fi.fatType = 12 \/ fi.fatType = 16
        /\ \/ nextCluster < fatSectorMin
           \/ nextCluster > fatSectorMin + EntriesPerFATSector(fi)

getCorrectFATSector(img, fi, fatSector, curFATSector, nextCluster) ==
    LET sizeofSector == fi.sizeofSector
        startFAT == sizeofSector * fi.reservedSectors
    IN  IF fi.fatType # 12 /\ fi.fatType # 16 THEN fatSector
        ELSE IF OutsideLoadedSector(fi, curFATSector, nextCluster)
             THEN LET newCur == sizeofSector * CDiv(nextCluster, EntriesPerFATSector(fi))
                  IN  ReadSector(img, fi, startFAT + sizeofSector * newCur)
             ELSE fatSector

\* the index of the first of the two buffer bytes getNextCluster reads
FatOffset(fi, cluster) ==
    IF fi.fatType = 12
    THEN IF cluster % 2 = 1 THEN ((cluster - 1) \div 2) * 3 + 1 ELSE (cluster \div 2) * 3
    ELSE cluster * 2

getNextCluster(img, fi, heap, fatSector, cluster) ==
    IF fi.fatType = 12 THEN
        IF cluster % 2 = 1 THEN
            LET offset == FatOffset(fi, cluster)
            IN  le2be3(heap.fill,
                       SectorByte(img, fi, heap, fatSector, offset),
                       SectorByte(img, fi, heap, fatSector, offset + 1), 2)
        ELSE
            LET offset == FatOffset(fi, cluster)
            IN  le2be3(SectorByte(img, fi, heap, fatSector, offset),
                       SectorByte(img, fi, heap, fatSector, offset + 1),
                       heap.fill, 1)
    ELSE IF fi.fatType = 16 THEN
        LET offset == FatOffset(fi, cluster)
        IN  le2be2(SectorByte(img, fi, heap, fatSector, offset),
                   SectorByte(img, fi, heap, fatSector, offset + 1))
    ELSE -1

\* GoodCluster taking the bad-cluster mark for a cluster number
GoodCluster_AcceptsBad(fi, nextCluster) ==
    \/ fi.fatType = 12 /\ nextCluster > RESERVED_12 /\ nextCluster <= BAD_CLUSTER_12
    \/ fi.fatType = 16 /\ nextCluster > RESERVED_16 /\ nextCluster <= BAD_CLUSTER_16

\* the test "if we've got a good cluster" of scanDirectory and getClusters
GoodCluster(fi, nextCluster) ==
    \/ fi.fatType = 12 /\ nextCluster > RESERVED_12 /\ nextCluster < BAD_CLUSTER_12
    \/ fi.fatType = 16 /\ nextCluster > RESERVED_16 /\ nextCluster < BAD_CLUSTER_16

\* the test that ends a chain-follow scan after a FAT lookup
AtEndMarker(fi, nextCluster) ==
    \/ fi.fatType = 12 /\ nextCluster >= END_MARKER_12
    \/ fi.fatType = 16 /\ nextCluster >= END_MARKER_16

----------------------------------------------------------------------------
(* Display names *)

Max(S) == CHOOSE x \in S : \A y \in S : y <= x
Min(S) == CHOOSE x \in S : \A y \in S : x <= y

\* the bytes of a C string held in s: everything before the first 0 byte
CString(s) ==
    SubSeq(s, 1, Min({i \in 1..Len(s) : s[i] = 0} \cup {Len(s) + 1}) - 1)

\* s with its trailing spaces set to 0; the first keep bytes are left alone
StripTrailing(s, keep) ==
    LET last == Max({i \in 1..Len(s) : i > keep /\ s[i] # SPACE} \cup {keep})
    IN  [i \in 1..Len(s) |-> IF i > last /\ i > keep THEN 0 ELSE s[i]]

\* the name[] built with the filename strip loop running down to index 0
DisplayName_StripsFirstByte(raw) ==
    LET fn0 == SubSeq(raw, 1, 8)
        fn1 == IF fn0[1] = ACTUAL_E5 THEN [fn0 EXCEPT ![1] = DELETED] ELSE fn0
        filename == StripTrailing(fn1, 0)
        extension == StripTrailing(SubSeq(raw, 9, 11), 0)
    IN  CString(filename)
          \o (IF extension[1] # 0 THEN <<DOT>> \o CString(extension) ELSE <<>>)

\* the name[] the scanners build from the 11 name bytes of a slot
DisplayName(raw) ==
    LET fn0 == SubSeq(raw, 1, 8)
        fn1 == IF fn0[1] = ACTUAL_E5 THEN [fn0 EXCEPT ![1] = DELETED] ELSE fn0
        filename == StripTrailing(fn1, 1)
        extension == StripTrailing(SubSeq(raw, 9, 11), 0)
    IN  CString(filename)
          \o (IF extension[1] # 0 THEN <<DOT>> \o CString(extension) ELSE <<>>)

\* the 11 name bytes of the slot at sector offset off
SlotNameBytes(img, fi, heap, sec, off) ==
    [b \in 1..11 |-> SectorByte(img, fi, heap, sec, off + b - 1)]

----------------------------------------------------------------------------
(* Directory scanner of del (msdosdel.c) *)

\* the mark a scan leaves in its result when it used up MaxFuel: the C
\* program does not come back from such a scan
Overflow == [posInFile |-> -1]
HasOverflow(list) == \E i \in 1..Len(list) : list[i] = Overflow

NoSkipBits(attributes) ==
    /\ ~HasBit(attributes, ATTR_HIDDEN)
    /\ ~HasBit(attributes, ATTR_SYSTEM_FILE)
    /\ ~HasBit(attributes, ATTR_VOLUME_LABEL)

\* What a scan returns is the sequence of the entries it appended to the
\* list, in list order, with a mark at each place where scanDirectorySector
\* called scanDirectory: the slot it was at, and the arguments of the call.
CallMark(slot, cluster) == [call |-> cluster, maxClusters |-> 0, slot |-> slot]
\* the trace of a sector read by the loop of scanDirectory(fs, cluster,
\* maxClusters): the file position it seeks to before the fread
ReadMark(pos, cluster, maxClusters) ==
    [read |-> pos, cluster |-> cluster, maxClusters |-> maxClusters]
IsCall(x) == "call" \in DOMAIN x
IsEntry(x) == "name" \in DOMAIN x
\* the list itself: the entries without the marks
Entries(found) == SelectSeq(found, IsEntry)

\* the test that guards the recursive call of scanDirectory
RecursesThrough(b0, b1, attributes) ==
    (b0 = DIRECTORY \/ HasBit(attributes, ATTR_SUB_DIR)) /\ b1 # DIRECTORY

\* the tests of del's scanner listing deleted slots as well
del_Listed_KeepsDeleted(b0, attributes) ==
    b0 # NOT_USED /\ NoSkipBits(attributes)

\* the tests a slot passes to be put on the list of del
del_Listed(b0, attributes) ==
    b0 # DELETED /\ b0 # NOT_USED /\ NoSkipBits(attributes)

RECURSIVE del_scanDirectoryFrom(_, _, _, _, _, _, _, _)
RECURSIVE del_scanDirectorySectorFrom(_, _, _, _, _, _, _)

\* the slots e, e+1, ... of one directory sector
del_scanDirectorySectorFrom(img, fi, heap, directory, posInFile, e, fuel) ==
    LET entriesPerSector == fi.sizeofSector \div SizeofDirEntry
        offset == e * SizeofDirEntry
        b0 == SectorByte(img, fi, heap, directory, offset)
        b1 == SectorByte(img, fi, heap, directory, offset + 1)
        attributes == SectorByte(img, fi, heap, directory, offset + 11)
        startingCluster == le2be2(SectorByte(img, fi, heap, directory, offset + 26),
                                  SectorByte(img, fi, heap, directory, offset + 27))
        sub == IF RecursesThrough(b0, b1, attributes)
               THEN <<CallMark(posInFile + offset, startingCluster)>>
                      \o del_scanDirectoryFrom(img, fi, heap, startingCluster, 0,
                                               startingCluster, 0, fuel)
               ELSE <<>>
        own == [ name      |-> DisplayName(SlotNameBytes(img, fi, heap, directory, offset)),
                 posInFile |-> posInFile + e * SizeofDirEntry ]
        here == IF del_Listed(b0, attributes) THEN sub \o <<own>> ELSE <<>>
    IN  IF e >= entriesPerSector THEN <<>>
        ELSE here \o del_scanDirectorySectorFrom(img, fi, heap, directory, posInFile, e + 1, fuel)

\* the while loop of scanDirectory, entered with nextCluster and clusterCount
del_scanDirectoryFrom(img, fi, heap, cluster, maxClusters, nextCluster, clusterCount, fuel) ==
    IF fuel = 0 THEN <<Overflow>>
    ELSE IF ~GoodCluster(fi, nextCluster) THEN <<>>
    ELSE
        LET sizeofSector == fi.sizeofSector
            absoluteCluster == getAbsoluteCluster(fi, nextCluster)
            fileSector == ReadSector(img, fi, sizeofSector * absoluteCluster)
            found == <<ReadMark(sizeofSector * absoluteCluster, cluster, maxClusters)>> \o
                     del_scanDirectorySectorFrom(img, fi, heap, fileSector,
                                                 sizeofSector * absoluteCluster, 0, fuel - 1)
            fatSector == getCorrectFATSector(img, fi, UninitSector, -1, nextCluster)
            following == getNextCluster(img, fi, heap, fatSector, nextCluster)
        IN  IF maxClusters > 0
            THEN IF clusterCount + 1 >= maxClusters THEN found
                 ELSE found \o del_scanDirectoryFrom(img, fi, heap, cluster, maxClusters,
                                                     cluster + clusterCount + 1,
                                                     clusterCount + 1, fuel - 1)
            ELSE IF AtEndMarker(fi, following) THEN found
                 ELSE found \o del_scanDirectoryFrom(img, fi, heap, cluster, maxClusters,
                                                     following, clusterCount, fuel - 1)

del_scanDirectory(img, fi, heap, cluster, maxClusters) ==
    del_scanDirectoryFrom(img, fi, heap, cluster, maxClusters, cluster, 0, MaxFuel)

----------------------------------------------------------------------------
(* Directory scanner of undel (msdosundel.c) *)

\* de->attributes is never assigned in msdosundel.c: the value tested is
\* whatever the malloc'd DirectoryEntry holds
JunkAttr(heap, pos) == IF pos \in DOMAIN heap.attr THEN heap.attr[pos] ELSE heap.fill

\* timeModified | (dateModified << 16) in a 32-bit int
\* dateModified << 16 reaches the sign bit of the int when dateModified >= 0x8000
CombinedTime(timeModified, dateModified) ==
    timeModified + (IF dateModified >= 32768 THEN dateModified - 65536 ELSE dateModified) * 65536

RECURSIVE undel_scanDirectoryFrom(_, _, _, _, _, _, _, _)
RECURSIVE undel_scanDirectorySectorFrom(_, _, _, _, _, _, _)

undel_scanDirectorySectorFrom(img, fi, heap, directory, posInFile, e, fuel) ==
    LET entriesPerSector == fi.sizeofSector \div SizeofDirEntry
        offset == e * SizeofDirEntry
        B(k) == SectorByte(img, fi, heap, directory, offset + k)
        b0 == B(0)
        attributes == JunkAttr(heap, posInFile + offset)
        startingCluster == le2be2(B(26), B(27))
        sub == IF NoSkipBits(attributes) /\ RecursesThrough(b0, B(1), attributes)
               THEN <<CallMark(posInFile + offset, startingCluster)>>
                      \o undel_scanDirectoryFrom(img, fi, heap, startingCluster, 0,
                                                 startingCluster, 0, fuel)
               ELSE <<>>
        own == [ name            |-> IF b0 = DELETED
                                     THEN DisplayName(SlotNameBytes(img, fi, heap, directory, offset))
                                     ELSE <<b0>>,
                 posInFile       |-> posInFile + e * SizeofDirEntry,
                 startingCluster |-> startingCluster,
                 timeModified    |-> CombinedTime(le2be2(B(22), B(23)), le2be2(B(24), B(25))),
                 fileSize        |-> le2be4(B(28), B(29), B(30), B(31)) ]
        here == IF b0 # NOT_USED THEN sub \o <<own>> ELSE <<>>
    IN  IF e >= entriesPerSector THEN <<>>
        ELSE here \o undel_scanDirectorySectorFrom(img, fi, heap, directory, posInFile, e + 1, fuel)

undel_scanDirectoryFrom(img, fi, heap, cluster, maxClusters, nextCluster, clusterCount, fuel) ==
    IF fuel = 0 THEN <<Overflow>>
    ELSE IF ~GoodCluster(fi, nextCluster) THEN <<>>
    ELSE
        LET sizeofSector == fi.sizeofSector
            absoluteCluster == getAbsoluteCluster(fi, nextCluster)
            fileSector == ReadSector(img, fi, sizeofSector * absoluteCluster)
            found == <<ReadMark(sizeofSector * absoluteCluster, cluster, maxClusters)>> \o
                     undel_scanDirectorySectorFrom(img, fi, heap, fileSector,
                                                   sizeofSector * absoluteCluster, 0, fuel - 1)
            fatSector == getCorrectFATSector(img, fi, UninitSector, -1, nextCluster)
            following == getNextCluster(img, fi, heap, fatSector, nextCluster)
        IN  IF maxClusters > 0
            THEN IF clusterCount + 1 >= maxClusters THEN found
                 ELSE found \o undel_scanDirectoryFrom(img, fi, heap, cluster, maxClusters,
                                                       cluster + clusterCount + 1,
                                                       clusterCount + 1, fuel - 1)
            ELSE IF AtEndMarker(fi, following) THEN found
                 ELSE found \o undel_scanDirectoryFrom(img, fi, heap, cluster, maxClusters,
                                                       following, clusterCount, fuel - 1)

undel_scanDirectory(img, fi, heap, cluster, maxClusters) ==
    undel_scanDirectoryFrom(img, fi, heap, cluster, maxClusters, cluster, 0, MaxFuel)

----------------------------------------------------------------------------
(* Directory scanner of dir (msdosdir.c) *)

\* msdosdir.c prints each entry where del appends it to the list; an entry
\* is the printed file name, extension and size.  Its scanDirectorySector
\* is not told where the sector was read from: posInFile is kept by the
\* model only, to name the slot an entry or a call mark comes from.

RECURSIVE dir_scanDirectoryFrom(_, _, _, _, _, _, _, _)
RECURSIVE dir_scanDirectorySectorFrom(_, _, _, _, _, _, _)

dir_scanDirectorySectorFrom(img, fi, heap, directory, posInFile, e, fuel) ==
    LET entriesPerSector == fi.sizeofSector \div SizeofDirEntry
        offset == e * SizeofDirEntry
        B(k) == SectorByte(img, fi, heap, directory, offset + k)
        b0 == B(0)
        attributes == B(11)
        startingCluster == le2be2(B(26), B(27))
        raw == SlotNameBytes(img, fi, heap, directory, offset)
        own == [ name      |-> IF raw[1] = ACTUAL_E5 THEN [raw EXCEPT ![1] = DELETED] ELSE raw,
                 fileSize  |-> le2be4(B(28), B(29), B(30), B(31)),
                 timeCreated  |-> le2be2(B(15), heap.fill),
                 dateCreated  |-> le2be2(B(17), heap.fill),
                 dateAccessed |-> le2be2(B(19), heap.fill),
                 timeModified |-> le2be2(B(22), B(23)),
                 dateModified |-> le2be2(B(24), B(25)),
                 posInFile |-> posInFile + offset ]
        sub == IF RecursesThrough(b0, B(1), attributes)
               THEN <<CallMark(posInFile + offset, startingCluster)>>
                      \o dir_scanDirectoryFrom(img, fi, heap, startingCluster, 0,
                                               startingCluster, 0, fuel)
               ELSE <<>>
        here == IF b0 # DELETED /\ b0 # NOT_USED /\ NoSkipBits(attributes)
                THEN <<own>> \o sub
                ELSE <<>>
    IN  IF e >= entriesPerSector THEN <<>>
        ELSE here \o dir_scanDirectorySectorFrom(img, fi, heap, directory, posInFile, e + 1, fuel)

\* the while loop of scanDirectory; in chain-follow mode it has no test for
\* the end marker and stops at the next round's test for a good cluster
dir_scanDirectoryFrom(img, fi, heap, cluster, maxClusters, nextCluster, clusterCount, fuel) ==
    IF fuel = 0 THEN <<Overflow>>
    ELSE IF ~GoodCluster(fi, nextCluster) THEN <<>>
    ELSE
        LET sizeofSector == fi.sizeofSector
            absoluteCluster == getAbsoluteCluster(fi, nextCluster)
            fileSector == ReadSector(img, fi, sizeofSector * absoluteCluster)
            found == <<ReadMark(sizeofSector * absoluteCluster, cluster, maxClusters)>> \o
                     dir_scanDirectorySectorFrom(img, fi, heap, fileSector,
                                                 sizeofSector * absoluteCluster, 0, fuel - 1)
            fatSector == getCorrectFATSector(img, fi, UninitSector, -1, nextCluster)
            following == getNextCluster(img, fi, heap, fatSector, nextCluster)
        IN  IF maxClusters > 0
            THEN IF clusterCount + 1 >= maxClusters THEN found
                 ELSE found \o dir_scanDirectoryFrom(img, fi, heap, cluster, maxClusters,
                                                     cluster + clusterCount + 1,
                                                     clusterCount + 1, fuel - 1)
            ELSE found \o dir_scanDirectoryFrom(img, fi, heap, cluster, maxClusters,
                                                following, clusterCount, fuel - 1)

dir_scanDirectory(img, fi, heap, cluster, maxClusters) ==
    dir_scanDirectoryFrom(img, fi, heap, cluster, maxClusters, cluster, 0, MaxFuel)

----------------------------------------------------------------------------
(* Undelete validator (msdosundel.c) *)

\* A ClusterList is a sequence of cluster numbers whose first element is
\* the head node: getClusters mallocs it and never assigns its cluster.

RECURSIVE getClustersFrom(_, _, _, _, _, _)
\* the nodes getClusters appends, entered with nextCluster and fileSize
getClustersFrom(img, fi, heap, fatSector, nextCluster, fileSize) ==
    IF GoodCluster(fi, nextCluster) /\ ~(fileSize < -fi.sizeofSector)
    THEN LET loaded == getCorrectFATSector(img, fi, fatSector, -1, nextCluster)
         IN  <<nextCluster>> \o
             getClustersFrom(img, fi, heap, loaded,
                             getNextCluster(img, fi, heap, loaded, nextCluster),
                             fileSize - fi.sizeofSector)
    ELSE <<>>

\* getClusters entering its loop with one sector more than the file size
getClusters_ExtraSector(img, fi, heap, head, startingCluster, fileSize) ==
    <<head>> \o getClustersFrom(img, fi, heap, UninitSector, startingCluster,
                                fileSize + fi.sizeofSector)

getClusters(img, fi, heap, head, startingCluster, fileSize) ==
    <<head>> \o getClustersFrom(img, fi, heap, UninitSector, startingCluster, fileSize)

\* verifySize counting the head node as a cluster
verifySize_CountsHead(fi, clusters, fileSize) ==
    LET count == Len(clusters)
        estimatedSize == count * fi.sizeofSector
    IN  IF estimatedSize < fileSize THEN FALSE
        ELSE IF estimatedSize > fileSize + fi.sizeofSector THEN FALSE
        ELSE TRUE

\* verifySize without the sector of slack above the file size
verifySize_NoSlack(fi, clusters, fileSize) ==
    LET count == Len(Tail(clusters))
        estimatedSize == count * fi.sizeofSector
    IN  IF estimatedSize < fileSize THEN FALSE
        ELSE IF estimatedSize > fileSize THEN FALSE
        ELSE TRUE

verifySize(fi, clusters, fileSize) ==
    LET count == Len(Tail(clusters))
        estimatedSize == count * fi.sizeofSector
    IN  IF estimatedSize < fileSize THEN FALSE
        ELSE IF estimatedSize > fileSize + fi.sizeofSector THEN FALSE
        ELSE TRUE

clusterListsCollide(cl1, cl2) ==
    \E i \in 1..Len(cl1) : \E j \in 1..Len(cl2) : cl1[i] = cl2[j]

\* the entries checkValid builds a second cluster list for
ComparedEntries(list, fileToCheck, posInList) ==
    { counter \in 1..Len(list) : /\ counter # posInList
                                 /\ list[counter].timeModified > fileToCheck.timeModified }

\* getClusters sets the next pointer of a node only when it appends another
\* one: a list with no cluster ends in the head node's unset next pointer
DanglingNext(clusters) == Len(clusters) = 1

\* what comparing the candidate's list cl with the list cl2 of another entry
\* comes to: "hit" (a common value), "none", or "crash" when the walk over
\* cl2 follows an unset next pointer that is not NULL
CompareLists(heap, cl, cl2) ==
    IF heap.wildNext /\ DanglingNext(cl2) /\ cl[1] # cl2[1] THEN "crash"
    ELSE IF clusterListsCollide(cl, cl2) THEN "hit"
    ELSE "none"

checkValid(img, fi, heap, list, fileToCheck, posInList) ==
    LET cl == getClusters(img, fi, heap, heap.head1,
                          fileToCheck.startingCluster, fileToCheck.fileSize)
        sizeCrash == heap.wildNext /\ DanglingNext(cl)
        sizeOk == verifySize(fi, cl, fileToCheck.fileSize)
        cl2(counter) == getClusters(img, fi, heap, heap.head2[counter],
                                    list[counter].startingCluster, list[counter].fileSize)
        compared == ComparedEntries(list, fileToCheck, posInList)
        events == { counter \in compared : CompareLists(heap, cl, cl2(counter)) # "none" }
        first == IF events = {} THEN "none"
                 ELSE CompareLists(heap, cl, cl2(Min(events)))
        crashed == sizeCrash \/ (sizeOk /\ first = "crash")
    IN  [ ran     |-> TRUE,
          file    |-> fileToCheck,
          cl      |-> cl,
          crashed |-> crashed,
          sizeOk  |-> ~sizeCrash /\ sizeOk,
          valid   |-> ~crashed /\ sizeOk /\ first = "none" ]

\* isAlphabetical testing one range from '@' to 'z'
isAlphabetical_OneRange(ch) == ch >= 64 /\ ch <= 122

isAlphabetical(ch) ==
    \/ ch >= 97 /\ ch <= 122
    \/ ch >= 65 /\ ch <= 90

----------------------------------------------------------------------------
(* The image files a session is started on *)

\* a 16-bit field of a slot; the slots that do not name it hold 0 there
SlotWord(slot, field) == IF field \in DOMAIN slot THEN slot[field] ELSE 0

\* a directory slot as the 32 bytes of a DirectoryEntry, at file position base
SlotBytes(base, slot) ==
    [ p \in base..(base + SizeofDirEntry - 1) |->
        LET k == p - base
        IN  CASE k < 11 -> slot.raw[k + 1]
              [] k = 11 -> slot.attributes
              [] k = 14 -> SlotWord(slot, "timeCreated") % 256
              [] k = 15 -> SlotWord(slot, "timeCreated") \div 256
              [] k = 16 -> SlotWord(slot, "dateCreated") % 256
              [] k = 17 -> SlotWord(slot, "dateCreated") \div 256
              [] k = 18 -> SlotWord(slot, "dateAccessed") % 256
              [] k = 19 -> SlotWord(slot, "dateAccessed") \div 256
              [] k = 22 -> slot.timeModified % 256
              [] k = 23 -> slot.timeModified \div 256
              [] k = 24 -> slot.dateModified % 256
              [] k = 25 -> slot.dateModified \div 256
              [] k = 26 -> slot.startingCluster % 256
              [] k = 27 -> slot.startingCluster \div 256
              [] k = 28 -> slot.fileSize % 256
              [] k = 29 -> (slot.fileSize \div 256) % 256
              [] k = 30 -> (slot.fileSize \div 65536) % 256
              [] k = 31 -> slot.fileSize \div 16777216
              [] OTHER  -> 0 ]

\* a FAT12 table (fat[i] is the entry of cluster i - 1) packed three bytes
\* to two entries, at file position base
Fat12Bytes(base, fat) ==
    [ p \in base..(base + (3 * Len(fat)) \div 2 - 1) |->
        LET off == p - base
            e0 == fat[2 * (off \div 3) + 1]
            e1 == fat[2 * (off \div 3) + 2]
        IN  CASE off % 3 = 0 -> e0 % 256
              [] off % 3 = 1 -> (e0 \div 256) + (e1 % 16) * 16
              [] OTHER       -> e1 \div 16 ]

\* the boot sector fields: 512 bytes per sector, 1 sector per cluster,
\* 16 root entries, 40 sectors
BootBytes(g) ==
    (11 :> 0) @@ (12 :> 2) @@ (13 :> 1) @@ (14 :> g.reserved) @@ (15 :> 0)
      @@ (16 :> g.copies) @@ (17 :> 16) @@ (18 :> 0) @@ (19 :> 40) @@ (20 :> 0)
      @@ (22 :> g.perFat) @@ (23 :> 0) @@ (510 :> 85) @@ (511 :> 170)

RECURSIVE FatCopies(_, _, _)
FatCopies(g, fat, k) ==
    IF k = 0 THEN << >>
    ELSE Fat12Bytes(512 * (g.reserved + (k - 1) * g.perFat), fat) @@ FatCopies(g, fat, k - 1)

RECURSIVE RootBytes(_, _, _)
RootBytes(base, root, k) ==
    IF k = 0 THEN << >>
    ELSE SlotBytes(base + (k - 1) * SizeofDirEntry, root[k]) @@ RootBytes(base, root, k - 1)

\* an image laid out as FAT12 lays it out: reserved sectors, the FAT
\* copies, the root directory, the data clusters
MakeImage(g, fat, root) ==
    BootBytes(g) @@ FatCopies(g, fat, g.copies)
      @@ RootBytes(512 * (g.reserved + g.copies * g.perFat), root, Len(root))

Geometries ==
    { [reserved |-> 1, copies |-> 2, perFat |-> 1],
      [reserved |-> 2, copies |-> 2, perFat |-> 1] }

\* FAT[2] = end, FAT[3] = 4 or bad, FAT[4] = end, FAT[5] = end, 6 -> 7 -> 8 -> end
Fats ==
    { <<4080, 4095, 4095, 4, 4095, 4095, 7, 8, 4095, 0>>,
      <<4080, 4095, 4095, 4087, 4095, 4095, 7, 8, 4095, 0>> }

Slot(raw, attr, time, date, cluster, size) ==
    [ raw |-> raw, attributes |-> attr, timeModified |-> time, dateModified |-> date,
      startingCluster |-> cluster, fileSize |-> size ]

\* A.TXT: live, cluster 2, 100 bytes, modified last
SlotA == Slot(<<65, 32, 32, 32, 32, 32, 32, 32, 84, 88, 84>>, 32, 0, 2, 2, 100)
\* ?.TXT: deleted, cluster 3, 600 bytes
SlotB == Slot(<<229, 32, 32, 32, 32, 32, 32, 32, 84, 88, 84>>, 32, 5, 1, 3, 600)
\* ?X.DAT: deleted, cluster 4, 512 bytes, modified after ?.TXT
SlotX == Slot(<<229, 88, 32, 32, 32, 32, 32, 32, 68, 65, 84>>, 32, 9, 1, 4, 512)
\* ?.DAT: deleted, cluster 6, 1025 bytes, a chain of three clusters
SlotD == Slot(<<229, 32, 32, 32, 32, 32, 32, 32, 68, 65, 84>>, 32, 2, 1, 6, 1025)
\* E.TXT: live, cluster 5, 512 bytes
SlotE == Slot(<<69, 32, 32, 32, 32, 32, 32, 32, 84, 88, 84>>, 32, 1, 1, 5, 512)
\* ?Z: deleted, empty: no cluster, 0 bytes, modified after ?.DAT
SlotZ == Slot(<<229, 90, 32, 32, 32, 32, 32, 32, 32, 32, 32>>, 32, 3, 1, 0, 0)

Pool == {SlotA, SlotB, SlotX, SlotD, SlotE, SlotZ}

\* the root directories: up to MaxRoot different slots of the pool, in any order
Roots ==
    { r \in UNION { [1..k -> Pool] : k \in 0..MaxRoot } :
        \A i, j \in DOMAIN r : i # j => r[i] # r[j] }

Images == { MakeImage(g, fat, root) : g \in Geometries, fat \in Fats, root \in Roots }

----------------------------------------------------------------------------
(* The sessions: main, deleteFile and undeleteFile *)

\* what the user can type at a [y/n] prompt: y, Y, n
AnswerChars == {121, 89, 110}
\* what the user can type at the letter prompt: A, z, @, [, 1, 0xE5
LetterChars == {65, 122, 64, 91, 49, 229}

\* a byte read by scanf("%c") as the value of the char variable
ToChar(b) == IF b >= 128 THEN b - 256 ELSE b

\* fseek(fs, pos, SEEK_SET); fwrite(&byte, 1, 1, fs)
WriteByte(img, pos, byte) == (pos :> byte) @@ img

NoCheck ==
    [ran |-> FALSE, file |-> <<>>, cl |-> <<>>, crashed |-> FALSE, sizeOk |-> FALSE, valid |-> FALSE]

NoInfo == [fatType |-> 0]

Init ==
    /\ tool \in {"del", "undel"}
    /\ image0 \in Images
    /\ image = image0
    /\ fatInfo = NoInfo
    /\ dirList = <<>>
    /\ pc = "start"
    /\ n = -1
    /\ answer = 0
    /\ c = 0
    /\ cand = 0
    /\ check = NoCheck
    /\ writes = <<>>
    /\ fnArg = <<>>
    /\ fnRes = <<>>

\* sizeof(BootSector)
SizeofBootSector == 512

\* what a malloc'd BootSector can hold when fread has not filled it: zeros,
\* or a boot sector that the memory held before
GarbageBoot == {<< >>} \cup { BootBytes(g) : g \in Geometries }

\* the BootSector after fread(bs, sizeof(BootSector), 1, fs), whose result
\* is not looked at: the first sector of the image, or what the buffer held
\* when the file is shorter than that
BootSectorRead(img) ==
    IF ImageLength(img) >= SizeofBootSector THEN {img} ELSE GarbageBoot

\* main: readBootStrapSector
ReadBoot ==
    /\ pc = "start"
    /\ \E bs \in BootSectorRead(image) :
         IF DividesByZero(bs)
         THEN fatInfo' = fatInfo /\ pc' = "crashed"
         ELSE fatInfo' = readBootStrapSector(bs) /\ pc' = "booted"
    /\ UNCHANGED <<tool, image0, image, dirList, n, answer, c, cand, check, writes, fnArg, fnRes>>

\* readBootStrapSector mallocs dirListHead and never sets its next pointer:
\* when the scan appends nothing, the listing loop starts from that unset
\* pointer and the program stops there unless the pointer happens to be NULL
ListingCrashes(heap, list) == heap.wildNext /\ list = <<>>

\* main of msdosdel.c: scanDirectory(file, FIRST_ROOT_CLUSTER, numRootClusters),
\* then deleteFile prints the list and prompts
ScanDel ==
    /\ pc = "booted"
    /\ tool = "del"
    /\ \E fill \in GarbageByte, wildNext \in BOOLEAN :
         LET heap == [fill |-> fill, wildNext |-> wildNext]
             list == del_scanDirectory(image, fatInfo, heap, FIRST_ROOT_CLUSTER,
                                       fatInfo.numRootClusters)
         IN  IF HasOverflow(list) \/ ListingCrashes(heap, Entries(list))
             THEN dirList' = <<>> /\ pc' = "crashed"
             ELSE dirList' = Entries(list) /\ pc' = "select"
    /\ UNCHANGED <<tool, image0, image, fatInfo, n, answer, c, cand, check, writes, fnArg, fnRes>>

\* main of msdosundel.c: the same call, then undeleteFile prints the
\* deleted entries and prompts
ScanUndel ==
    /\ pc = "booted"
    /\ tool = "undel"
    /\ \E fill \in GarbageByte, wildNext \in BOOLEAN,
          attr \in [UsedSlots(image) -> GarbageAttr] :
         LET heap == [fill |-> fill, wildNext |-> wildNext, attr |-> attr]
             list == undel_scanDirectory(image, fatInfo, heap, FIRST_ROOT_CLUSTER,
                                         fatInfo.numRootClusters)
         IN  IF HasOverflow(list) \/ ListingCrashes(heap, Entries(list))
             THEN dirList' = <<>> /\ pc' = "crashed"
             ELSE dirList' = Entries(list) /\ pc' = "select"
    /\ UNCHANGED <<tool, image0, image, fatInfo, n, answer, c, cand, check, writes, fnArg, fnRes>>

\* the entries undeleteFile prints: those whose name starts with DELETED
DeletedIndexes(list) == { i \in 1..Len(list) : list[i].name[1] = DELETED }

\* the selection loop of undeleteFile running on to the last deleted entry
NthDeleted_Last(list, k) == Max(DeletedIndexes(list))

\* the selection loop of undeleteFile counting every entry
NthDeleted_CountsAll(list, k) == k

\* the entry the selection loop of undeleteFile stops at: the k-th deleted one
NthDeleted(list, k) ==
    CHOOSE i \in DeletedIndexes(list) :
        Cardinality({ j \in DeletedIndexes(list) : j <= i }) = k

\* the selection loop of deleteFile stopping one entry early
NthListed_OneEarly(list, k) == IF k > 1 THEN k - 1 ELSE k

\* the entry the selection loop of deleteFile stops at
NthListed(list, k) == k

\* deleteFile: the number prompt up to the confirmation prompt
SelectDel ==
    /\ pc = "select"
    /\ tool = "del"
    /\ \E k \in -1..MaxN :
         LET counter == Len(dirList)
         IN  /\ n' = k
             /\ IF k < 0 \/ k > counter THEN pc' = "select" /\ cand' = cand
                ELSE IF k = 0 THEN pc' = "done" /\ cand' = cand
                ELSE pc' = "confirm" /\ cand' = NthListed(dirList, k)
    /\ UNCHANGED <<tool, image0, image, fatInfo, dirList, answer, c, check, writes, fnArg, fnRes>>

\* undeleteFile: the number prompt up to the confirmation prompt
SelectUndel ==
    /\ pc = "select"
    /\ tool = "undel"
    /\ \E k \in -1..MaxN :
         LET counter == Cardinality(DeletedIndexes(dirList))
         IN  /\ n' = k
             /\ IF k < 0 \/ k > counter THEN pc' = "select" /\ cand' = cand
                ELSE IF k = 0 THEN pc' = "done" /\ cand' = cand
                ELSE pc' = "confirm" /\ cand' = NthDeleted(dirList, k)
    /\ UNCHANGED <<tool, image0, image, fatInfo, dirList, answer, c, check, writes, fnArg, fnRes>>

\* deleteFile: the answer to "Delete NAME? [y/n]" and the write; fwrite
\* stores the first byte of the int DELETED, its low byte on a little-endian host
ConfirmDel ==
    /\ pc = "confirm"
    /\ tool = "del"
    /\ \E ch \in AnswerChars :
         /\ answer' = ch
         /\ c' = ToChar(ch)
         /\ IF ToChar(ch) = 121 \/ ToChar(ch) = 89
            THEN /\ image' = WriteByte(image, dirList[cand].posInFile, DELETED % 256)
                 /\ writes' = Append(writes, <<dirList[cand].posInFile, DELETED % 256>>)
            ELSE UNCHANGED <<image, writes>>
    /\ pc' = "done"
    /\ UNCHANGED <<tool, image0, fatInfo, dirList, n, cand, check, fnArg, fnRes>>

\* the value of c that undeleteFile tests after reading the answer
ConfirmedChar(ch) == 121

\* the posInList argument undeleteFile hands to checkValid
PosInListArg(counter) == counter - 1

\* undeleteFile going on to the letter prompt whatever the verdict
AfterCheck_IgnoresVerdict(valid) == "letter"

\* where undeleteFile goes with the verdict of checkValid: to the letter
\* prompt, or to the end after "this file cannot be restored"
AfterCheck(valid) == IF valid THEN "letter" ELSE "done"

\* undeleteFile: the answer to "Restore NAME? [y/n]", then checkValid
ConfirmUndel ==
    /\ pc = "confirm"
    /\ tool = "undel"
    /\ \E ch \in AnswerChars :
         LET tested == ConfirmedChar(ToChar(ch))
         IN  /\ answer' = ch
             /\ IF tested = 121 \/ tested = 89
                THEN \E fill \in GarbageByte, wildNext \in BOOLEAN, head1 \in GarbageInt,
                        head2 \in [ComparedEntries(dirList, dirList[cand], PosInListArg(n))
                                     -> GarbageInt] :
                       LET heap == [fill |-> fill, wildNext |-> wildNext,
                                    head1 |-> head1, head2 |-> head2]
                           result == checkValid(image, fatInfo, heap, dirList,
                                                dirList[cand], PosInListArg(n))
                       IN  /\ check' = result
                           /\ pc' = IF result.crashed THEN "crashed"
                                    ELSE AfterCheck(result.valid)
                           /\ c' = IF ~result.crashed /\ AfterCheck(result.valid) = "letter"
                                   THEN 0 ELSE tested
                ELSE check' = check /\ pc' = "done" /\ c' = tested
    /\ UNCHANGED <<tool, image0, image, fatInfo, dirList, n, cand, writes, fnArg, fnRes>>

\* undeleteFile: the letter prompt and the write
Letter ==
    /\ pc = "letter"
    /\ \E ch \in LetterChars :
         /\ c' = ToChar(ch)
         /\ IF isAlphabetical(ToChar(ch))
            THEN /\ image' = WriteByte(image, dirList[cand].posInFile, ch)
                 /\ writes' = Append(writes, <<dirList[cand].posInFile, ch>>)
                 /\ pc' = "done"
            ELSE UNCHANGED <<image, writes, pc>>
    /\ UNCHANGED <<tool, image0, fatInfo, dirList, n, answer, cand, check, fnArg, fnRes>>

Next ==
    \/ ReadBoot
    \/ ScanDel
    \/ ScanUndel
    \/ SelectDel
    \/ SelectUndel
    \/ ConfirmDel
    \/ ConfirmUndel
    \/ Letter

Spec == Init /\ [][Next]_vars

----------------------------------------------------------------------------
(* The claims about the sessions *)

\* the positions whose byte differs between the image now and at the start
Changed ==
    { p \in DOMAIN image \cup DOMAIN image0 : ByteAt(image, p) # ByteAt(image0, p) }

\* the codes of the ASCII letters
Letters == (65..90) \cup (97..122)

\* the 11 name bytes on disk at position p of the image as it was opened
NameOnDisk(p) == [b \in 1..11 |-> ByteAt(image0, p + b - 1)]

\* C1: a del session changes the image only when the user selects n with
\* 1 <= n <= N and answers y or Y; then exactly one byte changes, to 0xE5,
\* and it is the first byte of the n-th entry of the listing; with n = 0 or
\* any other answer nothing is written.
DelWritesOnlySelected ==
    tool = "del" =>
        /\ pc # "done" => image = image0 /\ writes = <<>>
        /\ pc = "select" => n \notin 1..Len(dirList)
        /\ pc = "confirm" => n \in 1..Len(dirList)
        /\ pc = "done" =>
             IF n \in 1..Len(dirList) /\ answer \in {121, 89}
             THEN LET pos == dirList[n].posInFile
                  IN  /\ writes = << <<pos, 229>> >>
                      /\ Changed = {pos}
                      /\ ByteAt(image, pos) = 229
                      /\ pos % SizeofDirEntry = 0
                      /\ ByteAt(image0, pos) \notin {0, 229}
                      /\ dirList[n].name = DisplayName(NameOnDisk(pos))
                      /\ \A i \in 1..Len(dirList) : i # n => dirList[i].posInFile # pos
             ELSE image = image0 /\ writes = <<>>

\* C1 witness: the second entry of a listing was selected, confirmed and written
DelWroteSecond ==
    /\ tool = "del" /\ pc = "done" /\ n = 2 /\ answer = 121
    /\ writes # <<>>

\* the FAT region of the image: from sector_size * reserved_sectors, for
\* fat_copies * sectors_per_fat sectors
InFatRegion(p) ==
    LET sector_size == BootField2(image0, 11)
        fat_start_byte == sector_size * BootField2(image0, 14)
    IN  /\ p >= fat_start_byte
        /\ p < fat_start_byte + ByteAt(image0, 16) * BootField2(image0, 22) * sector_size

\* C2: whatever the geometry, no byte of any FAT copy differs after the session.
FatUntouched == \A p \in Changed : ~InFatRegion(p)

\* C3: in an undel session, an answer other than y or Y to the confirmation
\* neither runs the validator nor writes.
UndelDeclineStops ==
    (tool = "undel" /\ answer # 0 /\ answer \notin {121, 89}) =>
        /\ ~check.ran
        /\ image = image0
        /\ writes = <<>>

\* C4: when the validator rejects the candidate no letter is asked for and
\* nothing is written; a write happens only after the validator said valid.
UndelRejectedNoWrite ==
    tool = "undel" =>
        /\ (check.ran /\ ~check.valid) =>
               /\ pc = IF check.crashed THEN "crashed" ELSE "done"
               /\ c = 121
               /\ image = image0
               /\ writes = <<>>
        /\ writes # <<>> => check.ran /\ check.valid
        /\ pc = "letter" => check.ran /\ check.valid

\* C4 witness: the validator has rejected a candidate
UndelRejected ==
    /\ tool = "undel" /\ pc = "done" /\ check.ran /\ ~check.valid /\ ~check.crashed

\* C5: when undel writes, exactly one byte changes: the tombstone byte of
\* the selected entry, and it becomes an ASCII letter; a non-letter is
\* asked for again and nothing is written.
UndelWritesLetter ==
    tool = "undel" =>
        /\ pc = "letter" => c \notin Letters /\ image = image0 /\ writes = <<>>
        /\ writes # <<>> =>
             LET pos == dirList[cand].posInFile
             IN  /\ pc = "done"
                 /\ Len(writes) = 1
                 /\ writes[1][1] = pos
                 /\ writes[1][2] \in Letters
                 /\ writes[1][2] = c
                 /\ Changed = {pos}
                 /\ ByteAt(image0, pos) = 229
                 /\ ByteAt(image, pos) = writes[1][2]

\* C5 witness: the letter z was written over a tombstone byte
UndelWrote ==
    /\ tool = "undel" /\ pc = "done" /\ writes # <<>> /\ c = 122

\* the entries of the scanned list whose first byte on disk is 0xE5
TombstonedIndexes ==
    { i \in 1..Len(dirList) : ByteAt(image0, dirList[i].posInFile) = 229 }

\* C6: undel offers exactly the scanned entries whose first byte on disk is
\* 0xE5, numbered in scan order; the n-th of them is the candidate that is
\* validated and written to, never a live entry.
UndelCandidateIsTombstoned ==
    /\ (tool = "undel" /\ pc = "select") => n \notin 1..Cardinality(TombstonedIndexes)
    /\ (tool = "undel" /\ pc \in {"confirm", "letter", "done", "crashed"} /\ n > 0) =>
        /\ n \in 1..Cardinality(TombstonedIndexes)
        /\ cand \in TombstonedIndexes
        /\ Cardinality({ j \in TombstonedIndexes : j <= cand }) = n
        /\ check.ran => check.file = dirList[cand]
        /\ \A i \in 1..Len(writes) : writes[i][1] = dirList[cand].posInFile

\* C6 witness: the candidate written to comes after a live entry in the list
UndelWroteAfterLive ==
    /\ tool = "undel" /\ pc = "done" /\ writes # <<>>
    /\ cand > n
    /\ ByteAt(image0, dirList[1].posInFile) # 229

\* the clusters getClusters collects for entry i of the scanned list
ChainOf(i) ==
    getClustersFrom(image0, fatInfo, [fill |-> 0], UninitSector,
                    dirList[i].startingCluster, dirList[i].fileSize)

\* entry i is another entry, modified strictly later than the candidate,
\* whose chain has a cluster in common with the candidate's chain
LaterAndSharing(i) ==
    /\ i # cand
    /\ dirList[i].timeModified > dirList[cand].timeModified
    /\ \E a \in 1..Len(ChainOf(i)) : \E b \in 1..Len(ChainOf(cand)) :
           ChainOf(i)[a] = ChainOf(cand)[b]

\* the case of C8: sector size 512, declared size 1025, a rebuilt chain of 3 clusters
Size1025Chain3 ==
    /\ tool = "undel"
    /\ check.ran
    /\ ~check.crashed
    /\ fatInfo.sizeofSector = 512
    /\ check.file.fileSize = 1025
    /\ Len(Tail(check.cl)) = 3

\* C8 as stated: such a candidate is rejected by the validator.
Size1025Chain3Rejected == Size1025Chain3 => ~check.valid

\* C8 amended: such a candidate passes the size check (1025 <= 1536 <= 1537)
\* and is accepted when the collision check compares it with no other entry.
Size1025Chain3PassesSizeCheck ==
    Size1025Chain3 =>
        /\ check.sizeOk
        /\ ComparedEntries(dirList, check.file, PosInListArg(n)) = {} => check.valid

\* C8 witness: the validator accepted a 1025-byte candidate with 3 clusters
Size1025Chain3Accepted == Size1025Chain3 /\ check.valid /\ pc = "letter"

\* C9: every other entry modified strictly later whose chain shares a
\* cluster with the candidate's makes the validator reject the candidate.
LaterSharingEntryRejects ==
    (tool = "undel" /\ check.ran /\ ~check.crashed /\ answer \in {121, 89}) =>
        ((\E i \in 1..Len(dirList) : LaterAndSharing(i)) => ~check.valid)

\* C10: a candidate that passes the size check is accepted whenever no
\* other, strictly later entry shares a cluster with it; the head nodes of
\* the cluster lists play no part.
AcceptedUnlessLaterSharing ==
    (tool = "undel" /\ check.ran /\ ~check.crashed /\ check.sizeOk /\ answer \in {121, 89}) =>
        ((~\E i \in 1..Len(dirList) : LaterAndSharing(i)) => check.valid)

----------------------------------------------------------------------------
(* verifySize applied on its own *)

\* the longest cluster list handed to verifySize
MaxCount == 4
\* the file sizes handed to verifySize reach MaxSizeUnits * 256 + 1
MaxSizeUnits == 8

FileSizes == { u * 256 + d : u \in 0..MaxSizeUnits, d \in {-1, 0, 1} }
SectorSizes == {512, 1024}

InitSize ==
    /\ tool = "verifySize"
    /\ pc = "apply"
    /\ fnArg \in [ count : 0..MaxCount, fileSize : FileSizes,
                   sizeofSector : SectorSizes, head : GarbageInt ]
    /\ fnRes = <<>>
    /\ image0 = <<>> /\ image = <<>> /\ fatInfo = NoInfo /\ dirList = <<>>
    /\ n = -1 /\ answer = 0 /\ c = 0 /\ cand = 0 /\ check = NoCheck /\ writes = <<>>

\* verifySize on a list of fnArg.count clusters behind its head node
ApplyVerifySize ==
    /\ tool = "verifySize"
    /\ pc = "apply"
    /\ fnRes' = << verifySize([sizeofSector |-> fnArg.sizeofSector],
                              <<fnArg.head>> \o [i \in 1..fnArg.count |-> i + 1],
                              fnArg.fileSize) >>
    /\ pc' = "done"
    /\ UNCHANGED <<tool, image0, image, fatInfo, dirList, n, answer, c, cand, check, writes, fnArg>>

NextSize == ApplyVerifySize

SpecSize == InitSize /\ [][NextSize]_vars

\* C7: the size check accepts iff file_size <= count * sector_size <=
\* file_size + sector_size, count being the clusters after the head node.
SizeCheckIsBand ==
    (tool = "verifySize" /\ pc = "done") =>
        (fnRes[1] <=> /\ fnArg.fileSize <= fnArg.count * fnArg.sizeofSector
                      /\ fnArg.count * fnArg.sizeofSector <= fnArg.fileSize + fnArg.sizeofSector)

\* C7 witness: a list of clusters was accepted at the upper edge of the band
SizeAcceptedAtEdge ==
    /\ tool = "verifySize" /\ pc = "done" /\ fnRes = <<TRUE>>
    /\ fnArg.count * fnArg.sizeofSector = fnArg.fileSize + fnArg.sizeofSector
    /\ fnArg.count > 0

----------------------------------------------------------------------------
(* The little-endian decoders applied on their own *)

\* the variables of a session, for the specifications that run no session
NoSession ==
    /\ image0 = <<>> /\ image = <<>> /\ fatInfo = NoInfo /\ dirList = <<>>
    /\ n = -1 /\ answer = 0 /\ c = 0 /\ cand = 0 /\ check = NoCheck /\ writes = <<>>

\* the byte values the decoders are applied to
ByteSamples == {0, 1, 15, 16, 127, 128, 240, 255}
\* the values handed to le2be3 as which
WhichSamples == {0, 1, 2, 3}

InitLe ==
    /\ tool = "le2be"
    /\ pc = "apply"
    /\ fnArg \in [ b0 : ByteSamples, b1 : ByteSamples, b2 : ByteSamples,
                   b3 : {0, 127, 128, 255}, which : WhichSamples ]
    /\ fnRes = <<>>
    /\ NoSession

\* le2be2 on the pair (b0, b1)
ApplyLe2be2 ==
    /\ tool = "le2be"
    /\ pc = "apply"
    /\ fnRes' = [fn |-> "le2be2", r |-> le2be2(fnArg.b0, fnArg.b1)]
    /\ pc' = "done"
    /\ UNCHANGED <<tool, image0, image, fatInfo, dirList, n, answer, c, cand, check, writes, fnArg>>

\* le2be3 on the triplet (b0, b1, b2): with which = 1, 2 and fnArg.which
ApplyLe2be3 ==
    /\ tool = "le2be"
    /\ pc = "apply"
    /\ fnRes' = [fn |-> "le2be3",
                 r1 |-> le2be3(fnArg.b0, fnArg.b1, fnArg.b2, 1),
                 r2 |-> le2be3(fnArg.b0, fnArg.b1, fnArg.b2, 2),
                 r  |-> le2be3(fnArg.b0, fnArg.b1, fnArg.b2, fnArg.which)]
    /\ pc' = "done"
    /\ UNCHANGED <<tool, image0, image, fatInfo, dirList, n, answer, c, cand, check, writes, fnArg>>

\* le2be4 on the quad (b0, b1, b2, b3)
ApplyLe2be4 ==
    /\ tool = "le2be"
    /\ pc = "apply"
    /\ fnRes' = [fn |-> "le2be4", r |-> le2be4(fnArg.b0, fnArg.b1, fnArg.b2, fnArg.b3)]
    /\ pc' = "done"
    /\ UNCHANGED <<tool, image0, image, fatInfo, dirList, n, answer, c, cand, check, writes, fnArg>>

NextLe ==
    \/ ApplyLe2be2
    \/ ApplyLe2be3
    \/ ApplyLe2be4

SpecLe == InitLe /\ [][NextLe]_vars

\* a | b for a, b >= 0
RECURSIVE BitOr(_, _)
BitOr(a, b) ==
    IF a = 0 THEN b
    ELSE IF b = 0 THEN a
    ELSE (IF a % 2 = 1 \/ b % 2 = 1 THEN 1 ELSE 0) + 2 * BitOr(a \div 2, b \div 2)

\* C14: for every byte triple, le2be3(t, 1) | (le2be3(t, 2) << 12) is
\* b0 | (b1 << 8) | (b2 << 16); both results are in 0..4095; a which other
\* than 1 or 2 gives what which = 1 gives.
Le3PairRebuildsTriple ==
    (tool = "le2be" /\ pc = "done" /\ fnRes.fn = "le2be3") =>
        /\ BitOr(fnRes.r1, fnRes.r2 * 4096)
             = BitOr(fnArg.b0, BitOr(fnArg.b1 * 256, fnArg.b2 * 65536))
        /\ fnRes.r1 \in 0..4095
        /\ fnRes.r2 \in 0..4095
        /\ fnArg.which = 2 => fnRes.r = fnRes.r2
        /\ fnArg.which # 2 => fnRes.r = fnRes.r1

\* C14 witness: le2be3 was applied with which = 3 to a triplet whose middle
\* byte has both nibbles set
Le3AppliedWithOtherWhich ==
    /\ tool = "le2be" /\ pc = "done" /\ fnRes.fn = "le2be3"
    /\ fnArg.which = 3 /\ fnArg.b1 = 255 /\ fnArg.b0 = 1 /\ fnArg.b2 = 128
    /\ fnRes.r = 3841

\* C15: le2be4 returns the unsigned value b0 + 2^8 b1 + 2^16 b2 + 2^24 b3
\* (its low half is b0 + 2^8 b1, its high half b2 + 2^8 b3, so splitting gives
\* the bytes back) and is never negative; le2be2 returns b0 + 2^8 b1.
Le4IsUnsignedValue ==
    /\ (tool = "le2be" /\ pc = "done" /\ fnRes.fn = "le2be4") =>
          /\ fnRes.r >= 0
          /\ fnRes.r % 65536 = fnArg.b0 + 256 * fnArg.b1
          /\ fnRes.r \div 65536 = fnArg.b2 + 256 * fnArg.b3
    /\ (tool = "le2be" /\ pc = "done" /\ fnRes.fn = "le2be2") =>
          /\ fnRes.r = fnArg.b0 + 256 * fnArg.b1
          /\ fnRes.r % 256 = fnArg.b0
          /\ fnRes.r \div 256 = fnArg.b1

----------------------------------------------------------------------------
(* getFATType applied on its own *)

\* the bytes 11..35 of a boot sector whose fields are those of the record f
BootFieldBytes(f) ==
    (11 :> f.bps % 256) @@ (12 :> f.bps \div 256) @@ (13 :> f.spc)
      @@ (14 :> f.res % 256) @@ (15 :> f.res \div 256) @@ (16 :> f.cop)
      @@ (17 :> f.ents % 256) @@ (18 :> f.ents \div 256)
      @@ (19 :> f.tot % 256) @@ (20 :> f.tot \div 256)
      @@ (22 :> f.spf % 256) @@ (23 :> f.spf \div 256)
      @@ (32 :> f.large[1]) @@ (33 :> f.large[2]) @@ (34 :> f.large[3]) @@ (35 :> f.large[4])

\* the boot sectors getFATType is applied to: sector sizes, sectors per
\* cluster, root entries, sectors per FAT, total sectors (16-bit field) and
\* large sectors (as four bytes); 1 reserved sector and 2 FAT copies
BootFields ==
    [ bps : {0, 512, 1024}, spc : {0, 1, 2}, res : {1}, cop : {2},
      ents : {16, 224}, spf : {1, 9},
      tot : {0, 3, 40, 4117, 4118, 65535},
      large : { <<0, 0, 0, 0>>, <<21, 0, 1, 0>>, <<22, 0, 1, 0>>, <<255, 255, 255, 255>> } ]

InitType ==
    /\ tool = "getFATType"
    /\ pc = "apply"
    /\ fnArg \in BootFields
    /\ fnRes = <<>>
    /\ NoSession

\* getFATType on the boot sector of fnArg
ApplyGetFATType ==
    /\ tool = "getFATType"
    /\ pc = "apply"
    /\ IF DividesByZero(BootFieldBytes(fnArg))
       THEN fnRes' = fnRes /\ pc' = "crashed"
       ELSE /\ fnRes' = [ total_clusters |-> getNumberClusters(BootFieldBytes(fnArg)),
                          fatType |-> getFATType(BootFieldBytes(fnArg)) ]
            /\ pc' = "done"
    /\ UNCHANGED <<tool, image0, image, fatInfo, dirList, n, answer, c, cand, check, writes, fnArg>>

NextType == ApplyGetFATType

SpecType == InitType /\ [][NextType]_vars

\* the sectors before the data region, as the boot sector of fnArg gives them
TypeOverhead ==
    fnArg.res + fnArg.cop * fnArg.spf + (fnArg.ents * 32 + fnArg.bps - 1) \div fnArg.bps

\* the total sectors: the 16-bit field, or the large-sectors field when that
\* is 0, as an unsigned 32-bit value in two 16-bit halves
TypeTotal ==
    IF fnArg.tot # 0 THEN [hi |-> 0, lo |-> fnArg.tot]
    ELSE [hi |-> fnArg.large[3] + 256 * fnArg.large[4],
          lo |-> fnArg.large[1] + 256 * fnArg.large[2]]

\* the cluster count: (total - overhead) / sectors per cluster, unsigned
TypeClusterCount == U32Div(U32Sub(TypeTotal, U32(TypeOverhead)), fnArg.spc)

\* C16: fat_type is 12 when the cluster count is < 4085, 16 when it is
\* < 65525 and 32 otherwise, the count being the unsigned 32-bit quotient of
\* the data sectors by the sectors per cluster; when the overhead exceeds
\* the total the subtraction wraps and the type is 32.
FatTypeFollowsClusterCount ==
    (tool = "getFATType" /\ pc = "done") =>
        /\ fnRes.fatType =
             IF TypeClusterCount.hi = 0 /\ TypeClusterCount.lo < 4085 THEN 12
             ELSE IF TypeClusterCount.hi = 0 /\ TypeClusterCount.lo < 65525 THEN 16
             ELSE 32
        /\ (TypeTotal.hi = 0 /\ TypeTotal.lo < TypeOverhead) => fnRes.fatType = 32

----------------------------------------------------------------------------
(* The FAT walker applied on its own *)

\* a FAT16 table (fat[i] is the entry of cluster i - 1), two bytes to an
\* entry, at file position base
Fat16Bytes(base, fat) ==
    [ p \in base..(base + 2 * Len(fat) - 1) |->
        LET e == fat[(p - base) \div 2 + 1]
        IN  IF (p - base) % 2 = 0 THEN e % 256 ELSE e \div 256 ]

\* a FAT in which every cluster from 2 on is followed by the next one, for
\* the clusters below count; the entries 0 and 1 hold the media marks
ChainedFat(count, endMark) ==
    [ i \in 1..count |-> IF i <= 2 THEN endMark ELSE i ]

\* a FAT12 volume of 400 sectors: 2 copies of a 2-sector FAT, 394 clusters
WalkBoot12 ==
    [ bps |-> 512, spc |-> 1, res |-> 1, cop |-> 2, ents |-> 16, spf |-> 2,
      tot |-> 400, large |-> <<0, 0, 0, 0>> ]

\* a FAT16 volume of 4200 sectors: 2 copies of a 17-sector FAT, 4164 clusters
WalkBoot16 ==
    [ bps |-> 512, spc |-> 1, res |-> 1, cop |-> 2, ents |-> 16, spf |-> 17,
      tot |-> 4200, large |-> <<0, 0, 0, 0>> ]

WalkImage12 ==
    BootFieldBytes(WalkBoot12) @@ Fat12Bytes(512, ChainedFat(396, 4095))
      @@ Fat12Bytes(512 * 3, ChainedFat(396, 4095))

WalkImage16 ==
    BootFieldBytes(WalkBoot16) @@ Fat16Bytes(512, ChainedFat(300, 65535))
      @@ Fat16Bytes(512 * 18, ChainedFat(300, 65535))

\* the clusters looked up on each volume: around the end of the first FAT
\* sector (341 entries of FAT12, 256 of FAT16) and at both ends
WalkClusters(img) ==
    IF img = WalkImage12 THEN {2, 3, 170, 340, 341, 342, 395}
    ELSE {2, 3, 255, 256, 257, 299}

InitWalk ==
    /\ tool = "getNextCluster"
    /\ pc = "apply"
    /\ image0 \in {WalkImage12, WalkImage16}
    /\ image = image0
    /\ fatInfo = readBootStrapSector(image0)
    /\ \E first \in WalkClusters(image0), other \in WalkClusters(image0) :
         fnArg = <<first, other, first>>
    /\ fnRes = [fatSector |-> UninitSector, found |-> <<>>, curFATSector |-> -1, reads |-> <<>>]
    /\ dirList = <<>> /\ n = -1 /\ answer = 0 /\ c = 0 /\ cand = 0
    /\ check = NoCheck /\ writes = <<>>

\* one round of the loop of getClusters: getCorrectFATSector with the
\* caller's curFATSector, which is passed by value and so keeps the -1 it
\* was initialised with, then getNextCluster on the sector it returns;
\* reads logs whether the call read a FAT sector from the image
LookupCluster ==
    /\ tool = "getNextCluster"
    /\ pc = "apply"
    /\ \E fill \in GarbageByte :
         LET heap == [fill |-> fill]
             cluster == fnArg[Len(fnRes.found) + 1]
             curFATSector == fnRes.curFATSector
             fatSector == getCorrectFATSector(image, fatInfo, fnRes.fatSector,
                                              curFATSector, cluster)
         IN  fnRes' = [ fatSector |-> fatSector,
                        found |-> Append(fnRes.found,
                                         getNextCluster(image, fatInfo, heap, fatSector, cluster)),
                        curFATSector |-> curFATSector,
                        reads |-> Append(fnRes.reads,
                                         OutsideLoadedSector(fatInfo, curFATSector, cluster)) ]
    /\ pc' = IF Len(fnRes.found) + 1 = Len(fnArg) THEN "done" ELSE "apply"
    /\ UNCHANGED <<tool, image0, image, fatInfo, dirList, n, answer, c, cand, check, writes, fnArg>>

NextWalk == LookupCluster

SpecWalk == InitWalk /\ [][NextWalk]_vars

\* the FAT entry of cluster k in the image: on FAT12 the 12-bit field of
\* the triplet holding k, on FAT16 the 16-bit value at bytes 2k and 2k + 1
\* of the FAT region
FatEntryInImage(k) ==
    LET startFAT == fatInfo.sizeofSector * fatInfo.reservedSectors
        t == startFAT + 3 * (k \div 2)
    IN  IF fatInfo.fatType = 12
        THEN IF k % 2 = 0
             THEN ByteAt(image0, t) + (ByteAt(image0, t + 1) % 16) * 256
             ELSE ByteAt(image0, t + 1) \div 16 + ByteAt(image0, t + 2) * 16
        ELSE ByteAt(image0, startFAT + 2 * k) + 256 * ByteAt(image0, startFAT + 2 * k + 1)

\* C17: for every cluster from 2 to the last one of the volume, entries
\* beyond the first FAT sector included, the walker's successor is the FAT
\* entry of the cluster in the image; a second lookup of the same cluster
\* gives the same result whatever was looked up in between.
WalkerReturnsFatEntry ==
    tool = "getNextCluster" =>
        /\ \A i \in 1..Len(fnRes.found) : fnRes.found[i] = FatEntryInImage(fnArg[i])
        /\ Len(fnRes.found) = 3 => fnRes.found[3] = fnRes.found[1]

----------------------------------------------------------------------------
(* Sessions on images the tools do not support *)

\* an image whose 16-bit total sectors field is 65535: 65531 or 65530
\* clusters, so the derived FAT type is 32
Fat32Images ==
    { (19 :> 255) @@ (20 :> 255) @@ MakeImage(g, fat, root) :
        g \in Geometries, fat \in Fats, root \in { r \in Roots : Len(r) <= 1 } }

\* an image file of no bytes
EmptyImage == << >>

\* the images of these sessions: those of derived type 32, the empty file,
\* and the FAT12 images with at most one root slot
EdgeImages ==
    Fat32Images \cup {EmptyImage}
      \cup { MakeImage(g, fat, root) :
               g \in Geometries, fat \in Fats, root \in { r \in Roots : Len(r) <= 1 } }

InitEdge ==
    /\ tool \in {"del", "undel"}
    /\ image0 \in EdgeImages
    /\ image = image0
    /\ fatInfo = NoInfo
    /\ dirList = <<>>
    /\ pc = "start"
    /\ n = -1
    /\ answer = 0
    /\ c = 0
    /\ cand = 0
    /\ check = NoCheck
    /\ writes = <<>>
    /\ fnArg = <<>>
    /\ fnRes = <<>>

SpecEdge == InitEdge /\ [][Next]_vars

\* C18: on an image whose derived FAT type is 32 the walker returns -1 for
\* every lookup, the scan emits no entry, del and undel offer an empty list
\* (0 is the only accepted selection) and nothing is written.
Fat32OffersEmptyList ==
    (tool \in {"del", "undel"} /\ fatInfo.fatType = 32) =>
        /\ \A k \in {2, 3, 4087} :
             getNextCluster(image, fatInfo, [fill |-> 255],
                            getCorrectFATSector(image, fatInfo, UninitSector, -1, k), k) = -1
        /\ dirList = <<>>
        /\ image = image0 /\ writes = <<>>
        /\ pc \in {"booted", "select", "done"}
        /\ pc = "done" => n = 0

\* C19: when the image is shorter than one 512-byte sector the boot-sector
\* reader fails: no geometry is derived, no scan runs, nothing is written.
TruncatedImageFails ==
    (tool \in {"del", "undel"} /\ ImageLength(image0) < 512) =>
        /\ pc \in {"start", "failed"}
        /\ fatInfo = NoInfo
        /\ dirList = <<>>
        /\ image = image0 /\ writes = <<>>

----------------------------------------------------------------------------
(* The directory scanners applied to images with a subdirectory *)

\* at most this many slots are used in the root directory of such an image
MaxTreeRoot == 2

TreeGeometry == [reserved |-> 1, copies |-> 2, perFat |-> 1]
\* where the root directory of such an image starts
TreeRootBase == 512 * (TreeGeometry.reserved + TreeGeometry.copies * TreeGeometry.perFat)

\* FAT[3] = end, or 3 -> 4 -> end; every other cluster is a chain of one
TreeFats ==
    { <<4080, 4095, 4095, 4095, 4095, 4095, 4095, 4095, 4095, 4095>>,
      <<4080, 4095, 4095, 4, 4095, 4095, 4095, 4095, 4095, 4095>> }

\* A.TXT: a file, cluster 5, created 0x2345 at 0x1234, accessed 0x2346
TreeFile ==
    Slot(<<65, 32, 32, 32, 32, 32, 32, 32, 84, 88, 84>>, 32, 0, 2, 5, 100)
      @@ [timeCreated |-> 4660, dateCreated |-> 9029, dateAccessed |-> 9030]
\* SUB: a subdirectory, cluster 3
TreeSub == Slot(<<83, 85, 66, 32, 32, 32, 32, 32, 32, 32, 32>>, ATTR_SUB_DIR, 1, 1, 3, 0)
\* H: a hidden file, cluster 6
TreeHidden == Slot(<<72, 32, 32, 32, 32, 32, 32, 32, 32, 32, 32>>, 32 + ATTR_HIDDEN, 1, 1, 6, 100)
\* HS: a hidden subdirectory, cluster 3
TreeHiddenSub ==
    Slot(<<72, 83, 32, 32, 32, 32, 32, 32, 32, 32, 32>>, ATTR_SUB_DIR + ATTR_HIDDEN, 1, 1, 3, 0)
\* VOL: the volume label
TreeLabel == Slot(<<86, 79, 76, 32, 32, 32, 32, 32, 32, 32, 32>>, ATTR_VOLUME_LABEL, 1, 1, 0, 0)
\* ?G: a deleted system file, cluster 7
TreeDeletedSystem ==
    Slot(<<229, 71, 32, 32, 32, 32, 32, 32, 32, 32, 32>>, 32 + ATTR_SYSTEM_FILE, 1, 1, 7, 512)

TreePool == {TreeFile, TreeSub, TreeHidden, TreeHiddenSub, TreeLabel, TreeDeletedSystem}

TreeRoots ==
    { r \in UNION { [1..k -> TreePool] : k \in 0..MaxTreeRoot } :
        \A i, j \in DOMAIN r : i # j => r[i] # r[j] }

\* the slots of the subdirectory: "." (its own cluster), ".." (cluster 0,
\* the root), and the files K and K2
TreeDot == Slot(<<46, 32, 32, 32, 32, 32, 32, 32, 32, 32, 32>>, ATTR_SUB_DIR, 1, 1, 3, 0)
TreeDotDot == Slot(<<46, 46, 32, 32, 32, 32, 32, 32, 32, 32, 32>>, ATTR_SUB_DIR, 1, 1, 0, 0)
TreeChild == Slot(<<75, 32, 32, 32, 32, 32, 32, 32, 32, 32, 32>>, 32, 1, 1, 8, 100)
TreeChild2 == Slot(<<75, 50, 32, 32, 32, 32, 32, 32, 32, 32, 32>>, 32, 1, 1, 9, 100)

\* what the first sector of the subdirectory holds
TreeSubs ==
    { << >>, <<TreeDot, TreeDotDot, TreeChild>>, <<TreeChild>>, <<TreeDotDot, TreeChild>> }

\* the sector that holds cluster k: with shift 0 the one the tools read for
\* it (getAbsoluteCluster: cluster 2 is the first root sector), with shift 1
\* the one FAT gives it (cluster 2 is the first sector after the root)
TreeSector(k, shift) == k - 2 + TreeRootBase \div 512 + shift

\* a tree: the root slots, the slots of SUB's first cluster (3), the FAT
\* and the layout; cluster 4 always holds the slot K2
Trees == [ root : TreeRoots, sub : TreeSubs, fat : TreeFats, shift : {0, 1} ]

TreeImage(t) ==
    BootBytes(TreeGeometry) @@ FatCopies(TreeGeometry, t.fat, TreeGeometry.copies)
      @@ RootBytes(TreeRootBase, t.root, Len(t.root))
      @@ RootBytes(512 * TreeSector(3, t.shift), t.sub, Len(t.sub))
      @@ RootBytes(512 * TreeSector(4, t.shift), <<TreeChild2>>, 1)

InitScan ==
    /\ tool \in {"dir", "del", "undel"}
    /\ pc = "scan"
    /\ fnArg \in Trees
    /\ image0 = TreeImage(fnArg)
    /\ image = image0
    /\ fatInfo = readBootStrapSector(image0)
    /\ fnRes = <<>>
    /\ dirList = <<>> /\ n = -1 /\ answer = 0 /\ c = 0 /\ cand = 0
    /\ check = NoCheck /\ writes = <<>>

\* main: scanDirectory(file, FIRST_ROOT_CLUSTER, numRootClusters) of the
\* tool; in undel every DirectoryEntry is the same malloc'd block again, so
\* its unset attributes byte is one value for the whole scan
ScanTree ==
    /\ pc = "scan"
    /\ tool \in {"dir", "del", "undel"}
    /\ \E fill \in GarbageByte, junk \in GarbageAttr :
         LET heap == [fill |-> fill, attr |-> [p \in UsedSlots(image) |-> junk]]
             found == CASE tool = "dir" ->
                             dir_scanDirectory(image, fatInfo, heap, FIRST_ROOT_CLUSTER,
                                               fatInfo.numRootClusters)
                        [] tool = "del" ->
                             del_scanDirectory(image, fatInfo, heap, FIRST_ROOT_CLUSTER,
                                               fatInfo.numRootClusters)
                        [] OTHER ->
                             undel_scanDirectory(image, fatInfo, heap, FIRST_ROOT_CLUSTER,
                                                 fatInfo.numRootClusters)
         IN  /\ fnRes' = [found |-> found]
             /\ pc' = IF HasOverflow(found) THEN "crashed" ELSE "scanned"
    /\ UNCHANGED <<tool, image0, image, fatInfo, dirList, n, answer, c, cand, check, writes, fnArg>>

\* the write of deleteFile at an entry of del's list, then the scan again
DeleteRescan ==
    /\ pc = "scanned"
    /\ tool = "del"
    /\ \E i \in 1..Len(Entries(fnRes.found)), fill \in GarbageByte :
         LET pos == Entries(fnRes.found)[i].posInFile
         IN  /\ image' = WriteByte(image, pos, DELETED % 256)
             /\ writes' = Append(writes, <<pos, DELETED % 256>>)
             /\ fnRes' = [ found |-> fnRes.found,
                           picked |-> i,
                           again |-> del_scanDirectory(image', fatInfo, [fill |-> fill],
                                                       FIRST_ROOT_CLUSTER,
                                                       fatInfo.numRootClusters) ]
    /\ pc' = "rescanned"
    /\ UNCHANGED <<tool, image0, fatInfo, dirList, n, answer, c, cand, check, fnArg>>

NextScan ==
    \/ ScanTree
    \/ DeleteRescan

SpecScan == InitScan /\ [][NextScan]_vars

\* the call marks of a scan
Marks(found) == SelectSeq(found, IsCall)

\* the file position of the i-th root slot of a tree image
RootSlotPos(i) == TreeRootBase + (i - 1) * SizeofDirEntry

\* the sequence s without its i-th element
WithoutIndex(s, i) == SubSeq(s, 1, i - 1) \o SubSeq(s, i + 1, Len(s))

\* what a scan found, without the entry of the slot at pos and without what
\* was found between the call made at that slot and the entry of the slot
RECURSIVE WithoutSlot(_, _, _)
WithoutSlot(found, pos, inside) ==
    IF found = <<>> THEN <<>>
    ELSE LET x == Head(found)
         IN  IF IsCall(x) /\ x.slot = pos THEN WithoutSlot(Tail(found), pos, TRUE)
             ELSE IF IsEntry(x) /\ x.posInFile = pos THEN WithoutSlot(Tail(found), pos, FALSE)
             ELSE IF inside THEN WithoutSlot(Tail(found), pos, TRUE)
             ELSE <<x>> \o WithoutSlot(Tail(found), pos, FALSE)

\* the position of the entry picked by DeleteRescan
PickedPos == Entries(fnRes.found)[fnRes.picked].posInFile

\* C11 as stated: for every entry E of a deletion-list scan, files and
\* subdirectory entries alike, writing 0xE5 at E's position and scanning
\* again gives the original list with E removed and nothing else changed.
RescanDropsOnlyPicked ==
    (tool = "del" /\ pc = "rescanned") =>
        Entries(fnRes.again) = WithoutIndex(Entries(fnRes.found), fnRes.picked)

\* C11 amended: the second scan gives the original list without E and
\* without the entries the first scan found by recursing through E, every
\* other entry unchanged and in the same order; when the scan did not
\* recurse through E that is the original list with only E removed.
RescanDropsPickedAndItsSubtree ==
    (tool = "del" /\ pc = "rescanned") =>
        /\ ~HasOverflow(fnRes.again)
        /\ Entries(fnRes.again) = Entries(WithoutSlot(fnRes.found, PickedPos, FALSE))
        /\ (\A i \in 1..Len(fnRes.found) :
               IsCall(fnRes.found[i]) => fnRes.found[i].slot # PickedPos)
             => Entries(fnRes.again) = WithoutIndex(Entries(fnRes.found), fnRes.picked)

\* C11 witness: the entry of a subdirectory was deleted and the second scan
\* lost that entry and the entries found under it
RescanDroppedSubtree ==
    /\ tool = "del" /\ pc = "rescanned"
    /\ \E i \in 1..Len(fnRes.found) :
         IsCall(fnRes.found[i]) /\ fnRes.found[i].slot = PickedPos
    /\ Len(Entries(fnRes.again)) < Len(Entries(fnRes.found)) - 1
    /\ Len(Entries(fnRes.again)) > 0

\* C12: the scanner never recurses through a slot whose bytes 0 and 1 are
\* both 0x2E, and it recurses, in chain-follow mode from the slot's 16-bit
\* starting cluster, through every other slot that is not skipped and has
\* first byte 0x2E or the subdir bit in its attribute byte.
RecursesThroughDirectorySlots ==
    (tool \in {"del", "undel"} /\ pc = "scanned") =>
        /\ \A k \in 1..Len(Marks(fnRes.found)) :
             LET m == Marks(fnRes.found)[k]
             IN  /\ ~(ByteAt(image0, m.slot) = 46 /\ ByteAt(image0, m.slot + 1) = 46)
                 /\ m.maxClusters = 0
                 /\ m.call = ByteAt(image0, m.slot + 26) + 256 * ByteAt(image0, m.slot + 27)
        /\ \A i \in 1..Len(fnArg.root) :
             LET p == RootSlotPos(i)
                 b0 == ByteAt(image0, p)
                 onDisk == ByteAt(image0, p + 11)
             IN  ( /\ b0 # 0
                   /\ tool = "del" => b0 # 229
                   /\ NoSkipBits(onDisk)
                   /\ b0 = 46 \/ HasBit(onDisk, 16)
                   /\ ~(b0 = 46 /\ ByteAt(image0, p + 1) = 46) )
                 => \E k \in 1..Len(Marks(fnRes.found)) : Marks(fnRes.found)[k].slot = p

\* a tree is well formed when its subdirectory holds "." (its own cluster),
\* ".." (the root) and a file, and one root slot at most leads to it; the
\* FAT chains of the tree images are acyclic
WellFormedTree(t) ==
    /\ (\E i \in 1..Len(t.root) : t.root[i] \in {TreeSub, TreeHiddenSub})
         => t.sub = <<TreeDot, TreeDotDot, TreeChild>>
    /\ ~\E i, j \in 1..Len(t.root) : t.root[i] = TreeSub /\ t.root[j] = TreeHiddenSub

\* C13: the scan started at the root terminates on every image whose
\* directory tree is well formed, and scans no directory more than once.
WellFormedTreeScanEnds ==
    (tool \in {"dir", "del", "undel"} /\ pc # "scan" /\ WellFormedTree(fnArg)) =>
        /\ pc # "crashed"
        /\ \A j, k \in 1..Len(Marks(fnRes.found)) :
             j # k => Marks(fnRes.found)[j].call # Marks(fnRes.found)[k].call

\* C20: in every scan mode a slot whose on-disk attribute byte has the
\* hidden, system or volume-label bit is neither put on the list nor
\* recursed through.
SkipBitSlotsLeftOut ==
    (tool \in {"dir", "del", "undel"} /\ pc = "scanned") =>
        \A i \in 1..Len(fnArg.root) :
            ~NoSkipBits(ByteAt(image0, RootSlotPos(i) + 11)) =>
                \A k \in 1..Len(fnRes.found) :
                    /\ IsEntry(fnRes.found[k]) => fnRes.found[k].posInFile # RootSlotPos(i)
                    /\ IsCall(fnRes.found[k]) => fnRes.found[k].slot # RootSlotPos(i)

\* the little-endian 16-bit value at bytes p and p + 1 of the image
WordInImage(p) == ByteAt(image0, p) + 256 * ByteAt(image0, p + 1)

\* C25: every entry the dir scan displays carries, as creation time,
\* creation date and last-access date, the little-endian 16-bit values at
\* offsets 14-15, 16-17 and 18-19 of its slot
DirShowsCreatedAndAccessedWords ==
    (tool = "dir" /\ pc = "scanned") =>
        \A k \in 1..Len(fnRes.found) :
            IsEntry(fnRes.found[k]) =>
                LET de == fnRes.found[k]
                IN  /\ de.timeCreated = WordInImage(de.posInFile + 14)
                    /\ de.dateCreated = WordInImage(de.posInFile + 16)
                    /\ de.dateAccessed = WordInImage(de.posInFile + 18)

\* ---------------------------------------------------------------------
\* Display names: the name building of del's scanDirectorySector applied
\* to the 11 name bytes of a slot the scanner emits
\* ---------------------------------------------------------------------

\* the name bytes of the slots: first byte neither 0x00 nor 0xE5 (the slot
\* is emitted), spaces, letters and zero bytes in the other positions
NameSamples ==
    { <<a, b, d, SPACE, SPACE, SPACE, SPACE, h>> \o <<x, y, z>> :
        a \in {ACTUAL_E5, SPACE, 65}, b \in {0, SPACE, 66}, d \in {0, SPACE, 67},
        h \in {SPACE, 72}, x \in {0, SPACE, 88}, y \in {0, SPACE, 89},
        z \in {0, SPACE, 90} }

InitName ==
    /\ tool = "name"
    /\ pc = "apply"
    /\ fnArg \in NameSamples
    /\ fnRes = <<>>
    /\ NoSession

\* lines 414-422 and 456-501 of msdosdel.c on the name bytes fnArg
ApplyDisplayName ==
    /\ tool = "name"
    /\ pc = "apply"
    /\ fnRes' = [name |-> DisplayName(fnArg)]
    /\ pc' = "done"
    /\ UNCHANGED <<tool, image0, image, fatInfo, dirList, n, answer, c, cand, check, writes, fnArg>>

SpecName == InitName /\ [][ApplyDisplayName]_vars

\* the stored filename with 0x05 in its first byte shown as 0xE5
ShownFilename ==
    [i \in 1..8 |-> IF i = 1 /\ fnArg[1] = ACTUAL_E5 THEN DELETED ELSE fnArg[i]]
StoredExtension == SubSeq(fnArg, 9, 11)
\* s without its trailing spaces
WithoutTrailingSpaces(s) ==
    SubSeq(s, 1, Max({i \in 1..Len(s) : s[i] # SPACE} \cup {0}))
\* byte i of s reaches the name: no zero byte at or before it, and it is not
\* one of the trailing spaces behind the first keep bytes
Reaches(s, i, keep) ==
    /\ \A j \in 1..i : s[j] # 0
    /\ i <= keep \/ \E j \in i..Len(s) : s[j] # SPACE
ReachingPrefix(s, keep) ==
    SubSeq(s, 1, Cardinality({i \in 1..Len(s) : Reaches(s, i, keep)}))
NameBuilt == pc = "done" /\ tool = "name"

\* C21 as stated: the name is the filename without its trailing spaces, then
\* '.' and the extension without its trailing spaces when the extension is
\* not all spaces; at most 12 characters; 0x05 shown as 0xE5
NameIsStrippedNameDotExt ==
    NameBuilt =>
        /\ fnRes.name =
             WithoutTrailingSpaces(ShownFilename)
               \o (IF \E i \in 1..3 : StoredExtension[i] # SPACE
                   THEN <<DOT>> \o WithoutTrailingSpaces(StoredExtension)
                   ELSE <<>>)
        /\ Len(fnRes.name) <= 12
        /\ fnArg[1] = ACTUAL_E5 => fnRes.name[1] = DELETED

\* C21 amended: the name is the filename up to its first zero byte, without
\* the trailing spaces that follow its first byte (the first byte always
\* stays), then '.' and the extension up to its first zero byte without its
\* trailing spaces, when the extension starts with a byte that is not zero
\* and is not all spaces; at most 12 characters; 0x05 shown as 0xE5
NameIsCutStrippedNameDotExt ==
    NameBuilt =>
        /\ fnRes.name =
             ReachingPrefix(ShownFilename, 1)
               \o (IF Reaches(StoredExtension, 1, 0)
                   THEN <<DOT>> \o ReachingPrefix(StoredExtension, 0)
                   ELSE <<>>)
        /\ Len(fnRes.name) <= 12
        /\ fnArg[1] = ACTUAL_E5 => fnRes.name[1] = DELETED

\* a filename of eight spaces with an extension was built into " .X"
NameKeptLeadingSpace ==
    /\ NameBuilt
    /\ \A i \in 1..8 : fnArg[i] = SPACE
    /\ fnRes.name = <<SPACE, DOT, 88>>

\* ---------------------------------------------------------------------
\* Chain rebuilding: checkValid applied to a candidate of any starting
\* cluster and size, on FATs with chains, bad marks, free entries and cycles
\* ---------------------------------------------------------------------

MaxChainUnits == 3

\* the two FATs of the sessions, and one where 3 -> 4 -> 3 and 5 -> 5 cycle
\* and 6 -> 7 -> 1
ChainFats == Fats \cup { <<4080, 4095, 4095, 4, 3, 5, 7, 1, 4095, 0>> }
\* file sizes as le2be4 returns them: negative, zero, around sector multiples
ChainSizes ==
    {-513, -512, -1} \cup { u * 512 + d : u \in 0..MaxChainUnits, d \in {0, 1, 88, 511} }

ChainEntry(cluster, size, time) ==
    [ name |-> <<DELETED>>, posInFile |-> 0, startingCluster |-> cluster,
      timeModified |-> time, fileSize |-> size ]

InitChain ==
    /\ tool = "checkValid"
    /\ pc = "apply"
    /\ image0 \in { MakeImage([reserved |-> 1, copies |-> 2, perFat |-> 1], fat, <<>>) :
                       fat \in ChainFats }
    /\ image = image0
    /\ fatInfo = readBootStrapSector(image0)
    /\ \E cluster \in {0, 1, 2, 3, 5, 6, 9}, size \in ChainSizes :
         dirList \in { <<ChainEntry(cluster, size, 1)>>,
                       <<ChainEntry(cluster, size, 1), ChainEntry(4, 512, 2)>>,
                       <<ChainEntry(cluster, size, 1), ChainEntry(5, 1024, 2)>> }
    /\ fnArg = <<>> /\ fnRes = <<>>
    /\ n = 1 /\ answer = 0 /\ c = 0 /\ cand = 1 /\ check = NoCheck /\ writes = <<>>

\* checkValid on the first entry of the list, as undeleteFile calls it for
\* the listing number 1
ApplyCheckValid ==
    /\ tool = "checkValid"
    /\ pc = "apply"
    /\ \E fill \in GarbageByte, wildNext \in BOOLEAN, head1 \in GarbageInt,
          head2 \in [ComparedEntries(dirList, dirList[cand], PosInListArg(n)) -> GarbageInt] :
         LET heap == [fill |-> fill, wildNext |-> wildNext, head1 |-> head1, head2 |-> head2]
         IN  check' = checkValid(image, fatInfo, heap, dirList, dirList[cand], PosInListArg(n))
    /\ pc' = IF check'.crashed THEN "crashed" ELSE "done"
    /\ UNCHANGED <<tool, image0, image, fatInfo, dirList, n, answer, c, cand, writes, fnArg, fnRes>>

SpecChain == InitChain /\ [][ApplyCheckValid]_vars

ChainBuilt == tool = "checkValid" /\ check.ran
\* the cluster numbers the rebuilt list holds after its head node
Collected == Tail(check.cl)
\* the value the loop of getClusters stopped on
StoppedOn ==
    IF Collected = <<>> THEN check.file.startingCluster
    ELSE FatEntryInImage(Collected[Len(Collected)])
\* the size left after k clusters were collected
SizeLeft(k) == check.file.fileSize - k * fatInfo.sizeofSector

ChainLengthBoundedBySize ==
    /\ pc # "apply" => ChainBuilt
    /\ (ChainBuilt /\ check.file.fileSize >= 0)
          => Len(Collected) <= check.file.fileSize \div fatInfo.sizeofSector + 2

\* the cycle 3 -> 4 -> 3 was followed up to the bound: 3 clusters for 600 bytes
ChainCycledUpToBound ==
    /\ ChainBuilt
    /\ check.file.fileSize = 600
    /\ Collected = <<3, 4, 3>>
    /\ FatEntryInImage(4) = 3

\* ---------------------------------------------------------------------
\* The FAT walker's buffer: which lookups read the image, and which buffer
\* bytes a lookup reads (checked under SpecWalk)
\* ---------------------------------------------------------------------

\* the FAT sector, counted from the start of the FAT, that holds the first
\* byte of the entry of cluster k
FatSectorOf(k) == FatOffset(fatInfo, k) \div fatInfo.sizeofSector
LookupsDone == Len(fnRes.found)
Walking == tool = "getNextCluster"

\* C23: after a lookup that read a FAT sector, the caller's curFATSector is
\* the quantity the seek was scaled from, and a lookup whose cluster has
\* its entry in the FAT sector of the lookup before it reads nothing
WalkerKeepsLoadedSector ==
    Walking =>
        /\ LookupsDone >= 1 /\ fnRes.reads[LookupsDone]
             => fnRes.curFATSector =
                  fatInfo.sizeofSector
                    * (fnArg[LookupsDone] \div EntriesPerFATSector(fatInfo))
        /\ \A i \in 2..LookupsDone :
             FatSectorOf(fnArg[i]) = FatSectorOf(fnArg[i - 1]) => ~fnRes.reads[i]

\* C29: the two buffer bytes of the last lookup lie inside the sector
\* buffer, and the buffer holds the FAT sector of that cluster's entry
WalkerReadsInsideBuffer ==
    (Walking /\ LookupsDone >= 1) =>
        LET cluster == fnArg[LookupsDone]
            offset == FatOffset(fatInfo, cluster)
        IN  GoodCluster(fatInfo, cluster) =>
              /\ offset >= 0
              /\ offset + 1 <= fatInfo.sizeofSector - 1
              /\ fnRes.fatSector.base =
                   fatInfo.sizeofSector * fatInfo.reservedSectors
                     + fatInfo.sizeofSector * FatSectorOf(cluster)

\* ---------------------------------------------------------------------
\* Timestamps: the combined date and time word of two entries, and the
\* comparison checkValid makes between them
\* ---------------------------------------------------------------------

\* 16-bit words of a date or time field
WordSamples == {0, 1, 32767, 32768, 65535}

InitTime ==
    /\ tool = "timeModified"
    /\ pc = "apply"
    /\ fnArg \in [dateA : WordSamples, timeA : WordSamples,
                  dateB : WordSamples, timeB : WordSamples]
    /\ fnRes = <<>>
    /\ NoSession

\* the scanner's timeModified of entries A and B, and the test of
\* checkValid with B as the candidate and A as the other entry of the list
ApplyCombinedTime ==
    /\ tool = "timeModified"
    /\ pc = "apply"
    /\ LET entryA == [timeModified |-> CombinedTime(fnArg.timeA, fnArg.dateA)]
           entryB == [timeModified |-> CombinedTime(fnArg.timeB, fnArg.dateB)]
       IN  fnRes' = [ a |-> entryA.timeModified,
                      b |-> entryB.timeModified,
                      later |-> 1 \in ComparedEntries(<<entryA>>, entryB, 0) ]
    /\ pc' = "done"
    /\ UNCHANGED <<tool, image0, image, fatInfo, dirList, n, answer, c, cand, check, writes, fnArg>>

SpecTime == InitTime /\ [][ApplyCombinedTime]_vars

\* C24: entry A is taken as later than entry B exactly when (date, time)
\* of A is lexicographically greater than (date, time) of B
TimestampOrderIsLexicographic ==
    (tool = "timeModified" /\ pc = "done") =>
        ( fnRes.later <=> \/ fnArg.dateA > fnArg.dateB
                          \/ fnArg.dateA = fnArg.dateB /\ fnArg.timeA > fnArg.timeB )

\* ---------------------------------------------------------------------
\* The geometry kept in fatInfo over a session (checked under Spec)
\* ---------------------------------------------------------------------

\* C26: from the parse of the boot sector on, first data sector = FAT
\* copies * sectors per FAT + 1, root sectors = root entries * 32 / sector
\* size, FAT start = sector size * reserved sectors, and the fields are
\* at every later point of the session the ones the boot sector of the
\* opened image gives
GeometryFollowsBootSector ==
    fatInfo # NoInfo =>
        /\ fatInfo.firstDataSector = fatInfo.numCopiesFAT * fatInfo.numFATSectors + 1
        /\ fatInfo.numRootClusters = (fatInfo.numRootEntries * 32) \div fatInfo.sizeofSector
        /\ fatInfo.numCopiesFAT = ByteAt(image0, 16)
        /\ fatInfo.numFATSectors = WordInImage(22)
        /\ fatInfo.numRootEntries = WordInImage(17)
        /\ fatInfo.sizeofSector = WordInImage(11)
        /\ fatInfo.sizeofSector * fatInfo.reservedSectors = WordInImage(11) * WordInImage(14)

\* an undel session went through scan, validation and write
GeometryKeptThroughRestore ==
    /\ tool = "undel"
    /\ pc = "done"
    /\ check.ran
    /\ writes # <<>>
    /\ fatInfo.firstDataSector = 3
    /\ fatInfo.numRootClusters = 1

\* ---------------------------------------------------------------------
\* The sectors one call of scanDirectory reads: fixed-extent calls
\* (maxClusters > 0) and chain-follow calls (maxClusters = 0) of del and
\* undel on small trees
\* ---------------------------------------------------------------------

\* the largest extent a fixed-extent call is made with
MaxExtent == 3

\* the chain of cluster 3: 3 alone, 3 -> 4, 3 -> 4 -> 5, 3 -> 5 -> 4
FollowFats ==
    { <<4080, 4095, 4095, 4095, 4095, 4095, 4095, 4095, 4095, 4095>>,
      <<4080, 4095, 4095, 4, 4095, 4095, 4095, 4095, 4095, 4095>>,
      <<4080, 4095, 4095, 4, 5, 4095, 4095, 4095, 4095, 4095>>,
      <<4080, 4095, 4095, 5, 4095, 4, 4095, 4095, 4095, 4095>> }

FollowTrees ==
    [ root : {<< >>, <<TreeFile>>, <<TreeSub>>, <<TreeFile, TreeHidden>>},
      sub : TreeSubs, fat : FollowFats, shift : {0} ]

\* scanDirectory(fs, cluster, maxClusters) as main calls it for the root
\* (maxClusters > 0) and as scanDirectorySector calls it (maxClusters = 0)
FollowCalls ==
    { [cluster |-> k, maxClusters |-> m] : k \in {2, 3}, m \in 1..MaxExtent }
      \cup { [cluster |-> k, maxClusters |-> 0] : k \in {3, 4, 5} }

InitFollow ==
    /\ tool \in {"del", "undel"}
    /\ pc = "call"
    /\ \E t \in FollowTrees, call \in FollowCalls :
         /\ fnArg = call
         /\ image0 = TreeImage(t)
    /\ image = image0
    /\ fatInfo = readBootStrapSector(image0)
    /\ fnRes = <<>>
    /\ dirList = <<>> /\ n = -1 /\ answer = 0 /\ c = 0 /\ cand = 0
    /\ check = NoCheck /\ writes = <<>>

\* one call of scanDirectory
CallScanDirectory ==
    /\ pc = "call"
    /\ tool \in {"del", "undel"}
    /\ \E fill \in GarbageByte, junk \in GarbageAttr :
         LET heap == [fill |-> fill, attr |-> [p \in UsedSlots(image) |-> junk]]
             found == IF tool = "del"
                      THEN del_scanDirectory(image, fatInfo, heap,
                                             fnArg.cluster, fnArg.maxClusters)
                      ELSE undel_scanDirectory(image, fatInfo, heap,
                                               fnArg.cluster, fnArg.maxClusters)
         IN  /\ fnRes' = [found |-> found]
             /\ pc' = IF HasOverflow(found) THEN "crashed" ELSE "returned"
    /\ UNCHANGED <<tool, image0, image, fatInfo, dirList, n, answer, c, cand, check, writes, fnArg>>

SpecFollow == InitFollow /\ [][CallScanDirectory]_vars

\* the file positions read by the loop of the call itself, in order
OwnRead(x) ==
    "read" \in DOMAIN x /\ x.cluster = fnArg.cluster /\ x.maxClusters = fnArg.maxClusters
OwnReads ==
    LET marks == SelectSeq(fnRes.found, OwnRead)
    IN  [i \in 1..Len(marks) |-> marks[i].read]

RECURSIVE FatChain(_, _)
\* the clusters of the image's FAT chain from k on, up to the first value
\* that is no cluster number; at most left of them
FatChain(k, left) ==
    IF left = 0 \/ k <= 1 \/ k >= 4087 THEN <<>>
    ELSE <<k>> \o FatChain(FatEntryInImage(k), left - 1)

\* where the sector of cluster k is read from
SectorPosition(k) == fatInfo.sizeofSector * (k - 2 + fatInfo.firstDataSector)

Returned == tool \in {"del", "undel"} /\ pc = "returned"

MaxRoundRoot == 2

RoundRoots ==
    { r \in UNION { [1..k -> Pool \ {SlotZ}] : k \in 1..MaxRoundRoot } :
        \A i, j \in DOMAIN r : i # j => r[i] # r[j] }

InitRound ==
    /\ tool = "del"
    /\ \E g \in Geometries, fat \in Fats, root \in RoundRoots :
         image0 = MakeImage(g, fat, root)
    /\ image = image0
    /\ fatInfo = NoInfo
    /\ dirList = <<>>
    /\ pc = "start"
    /\ n = -1 /\ answer = 0 /\ c = 0 /\ cand = 0
    /\ check = NoCheck
    /\ writes = <<>>
    /\ fnArg = <<>> /\ fnRes = <<>>

\* msdosundel is run on the file a del session has written to; fnArg keeps
\* the position del wrote at, image0 the file as it was before del
StartUndel ==
    /\ tool = "del"
    /\ pc = "done"
    /\ writes # <<>>
    /\ tool' = "undel"
    /\ pc' = "start"
    /\ fnArg' = [deleted |-> writes[1][1]]
    /\ fatInfo' = NoInfo
    /\ dirList' = <<>>
    /\ n' = -1 /\ answer' = 0 /\ c' = 0 /\ cand' = 0
    /\ check' = NoCheck
    /\ writes' = <<>>
    /\ UNCHANGED <<image0, image, fnRes>>

NextRound == Next \/ StartUndel

SpecRound == InitRound /\ [][NextRound]_vars

\* the undel session that follows a del session
SecondSession == tool = "undel" /\ fnArg # <<>>
\* the number undel's listing gives to the entry del tombstoned
ListingNumberOfDeleted ==
    Cardinality({ j \in DeletedIndexes(dirList) :
                    dirList[j].posInFile <= fnArg.deleted })
\* the user picked the entry del tombstoned, it passed the validator, and
\* the letter typed is the first name byte the entry had before del
RestoredWithOwnLetter ==
    /\ SecondSession
    /\ pc = "done"
    /\ writes # <<>>
    /\ \E j \in DeletedIndexes(dirList) : dirList[j].posInFile = fnArg.deleted
    /\ n = ListingNumberOfDeleted
    /\ c = ByteAt(image0, fnArg.deleted)
    /\ c \in Letters

\* C30: when del tombstones a live entry E whose first name byte is a
\* letter L, and undel is then run, E picked, accepted by the validator and
\* given the letter L, the image equals byte for byte the image before del
RoundTripRestoresImage ==
    RestoredWithOwnLetter => image = image0

\* A.TXT was tombstoned by del and brought back by undel with the letter A
RoundTripDone ==
    /\ RestoredWithOwnLetter
    /\ c = 65
    /\ image = image0
    /\ ByteAt(image0, fnArg.deleted) = 65

====
